---- MODULE Spec2Model ----
(***************************************************************************)
(* Job lifecycle / escrow ledger of the agent marketplace.                 *)
(*                                                                         *)
(* JobService (src/features/jobs/service.ts) and WalletService             *)
(* (src/features/payments/wallet.ts) run as request handlers against one   *)
(* PostgreSQL database.  Every awaited statement is one step of a handler; *)
(* a db.transaction block reads at READ COMMITTED (what each statement     *)
(* sees is the committed state at that statement) and its writes become    *)
(* visible together at commit, so the writes of one transaction are one    *)
(* step.  Money in a decimal(10,2) column is counted in cents; an amount a   *)
(* request carries is a number of any precision and is counted in tenths   *)
(* of a cent.                                                              *)
(***************************************************************************)
EXTENDS Integers, Sequences, FiniteSets, TLC

\* ------------------------------------------------------------------ bounds
NumProcs == 2
MaxJobs == 1
MaxTime == 1
MaxDeposits == 1
\* jobs in the specification of concurrent createJob requests
MaxLockJobs == 2
\* jobs and deposits in the specification of the timeout sweep
MaxSweepJobs == 2
MaxSweepDeposits == 2
\* the largest budget, in cents, in the specification of the fee split
MaxFeeCents == 30

\* ------------------------------------------------------- program constants
PLATFORM_FEE_PERCENT == 10

\* --------------------------------------------------------------- the world
NULL == "null"
\* a NULL in a numeric or timestamp column
NONE == 0 - 1

Procs == 1..NumProcs
Users == {"u1", "u2"}
Requesters == {"u1"}
DepositAmounts == {1200}
\* budgets of requests, in tenths of a cent
Budgets == {12000}
Contexts == {"clean", "secret"}
Ratings == {0, 5, 6}
\* the rows of the skills table
Skills == {"s1"}

\* The worker directory (rows of the workers table): read-only for the core.
Workers ==
  [ w_ok      |-> [apiEndpoint |-> "https://w", stripeAccountId |-> "acct_1", p90CompletionTime |-> 0],
    w_nopay   |-> [apiEndpoint |-> "https://w", stripeAccountId |-> NULL,     p90CompletionTime |-> 0],
    w_noend   |-> [apiEndpoint |-> "",          stripeAccountId |-> "acct_3", p90CompletionTime |-> 0] ]
WorkerIds == DOMAIN Workers

VARIABLES
  users,         \* users.wallet_balance, per user id
  jobs,          \* the jobs table; a job's id is its index
  escrow,        \* the escrow table, in insertion order
  transactions,  \* the transactions table (audit log), in insertion order
  transfers,     \* Stripe transfers created, in order; a transfer's id is its index
  posts,         \* dispatch webhooks POSTed: <<job id, outcome>>
  reputation,    \* per worker: ratings folded into its aggregate reputation
  now,           \* the clock
  pc,            \* per handler: the statement it is about to run
  loc,           \* per handler: its local variables
  wh,            \* webhook crypto: a message signed and a message presented
  fs,            \* skill engine: the file system, content per path
  ex,            \* skill engine: the ExecutionState of executeSkill and its result
  rl,            \* rate limiter: the store of one RateLimiter and what check returned
  runs           \* skill engine: the ExecutionState of each of two overlapping calls

vars == <<users, jobs, escrow, transactions, transfers, posts, reputation, now, pc, loc,
          wh, fs, ex, rl, runs>>

\* what the job and wallet services never touch
others == <<wh, fs, ex, rl, runs>>

db == <<users, jobs, escrow, transactions, transfers, posts, reputation>>

\* ------------------------------------------- the world of the leaf modules
\* A string whose characters matter (a timestamp header, a payload, a secret,
\* a file name) is the sequence of its characters.

\* webhook crypto: nothing signed, nothing presented
NoExchange ==
  [stage |-> "none", payload |-> <<>>, timestamp |-> <<>>, secret |-> <<>>,
   signature |-> [form |-> "absent", key |-> <<>>, msg |-> <<>>],
   given |-> [payload |-> <<>>, form |-> "absent", timestamp |-> <<>>,
              secret |-> <<>>, maxAgeSeconds |-> NONE],
   clock |-> 0, headers |-> {},
   result |-> [valid |-> FALSE, error |-> NULL]]

\* skill engine: a path is the sequence of its segments.
\* new SkillEngine(workspacePath): '/ws'
workspacePath == << <<"w", "s">> >>
backupPath ==
  workspacePath \o << <<".", "s", "k", "i", "l", "l", "-", "b", "a", "c", "k", "u", "p", "s">> >>

\* '/ws/a/x' and '/ws/b/x'
F_ax == workspacePath \o << <<"a">>, <<"x">> >>
F_bx == workspacePath \o << <<"b">>, <<"x">> >>

\* the files on disk when the engine is constructed, content per path: two in
\* the workspace, one in a directory beside it whose name begins with the
\* workspace's ('/ws2/y'), one elsewhere ('/out/z')
Tree ==
  (F_ax :> <<"C1">>) @@ (F_bx :> <<"C2">>)
  @@ (<< <<"w", "s", "2">>, <<"y">> >> :> <<"S">>)
  @@ (<< <<"o", "u", "t">>, <<"z">> >> :> <<"O">>)

\* the path templates of the skills: a literal path as it is written (absolute
\* or not, and its segments), or '${name}'
Templates ==
  [none |-> [kind |-> "lit", name |-> NULL, text |-> [abs |-> FALSE, segs |-> <<>>]],
   ax |-> [kind |-> "lit", name |-> NULL,
           text |-> [abs |-> FALSE, segs |-> << <<"a">>, <<"x">> >>]],
   new |-> [kind |-> "lit", name |-> NULL,
            text |-> [abs |-> FALSE, segs |-> << <<"n", "e", "w">> >>]],
   sibling |-> [kind |-> "lit", name |-> NULL,
                text |-> [abs |-> FALSE,
                          segs |-> << <<".", ".">>, <<"w", "s", "2">>, <<"y">> >>]],
   out |-> [kind |-> "lit", name |-> NULL,
            text |-> [abs |-> TRUE, segs |-> << <<"o", "u", "t">>, <<"z">> >>]],
   target |-> [kind |-> "var", name |-> "inputs.target",
               text |-> [abs |-> FALSE, segs |-> <<>>]],
   item |-> [kind |-> "var", name |-> "item", text |-> [abs |-> FALSE, segs |-> <<>>]]]

NoStep ==
  [step |-> "none", path |-> Templates.none, to |-> Templates.none,
   operation |-> NULL, items |-> <<>>, itemsGiven |-> "array", do |-> <<>>]

\* no executeSkill call has been made; a value of inputs is its typeof and
\* what it holds
NoExecution ==
  [pc |-> "idle",
   inputDef |-> [type |-> "string", required |-> FALSE, hasOptions |-> FALSE, options |-> {}],
   arg |-> [t |-> "undefined", v |-> NULL],
   target |-> [t |-> "undefined", v |-> Templates.none.text],
   files |-> <<>>, validation |-> <<>>,
   hasBackupMap |-> FALSE, backupMap |-> <<>>, changes |-> <<>>,
   step |-> NoStep, stepsRun |-> 0, saved |-> <<>>,
   ran |-> {}, restored |-> {}, failures |-> {}, before |-> Tree,
   error |-> NULL,
   result |-> [success |-> FALSE, message |-> NULL, error |-> NULL]]

\* rate limiter: the keys rateLimit builds (a user id, 'ip:' and an address)
Identifiers == {"u1", "ip:1"}

\* private store: RateLimitStore = {}, and no check made; an identifier
\* without entry has one that is not present
NoLimiter ==
  [store |-> [i \in Identifiers |-> [present |-> FALSE, count |-> 0, resetAt |-> 0]],
   calls |-> <<>>]

\* the two overlapping executeSkill calls
Runs == {"A", "B"}

IdleLoc ==
  [op |-> NULL, jobId |-> 0, userId |-> NULL, input |-> NULL,
   newId |-> 0, transferId |-> 0, via |-> NULL, queue |-> <<>>, swept |-> {},
   wr |-> NULL,
   threw |-> FALSE, error |-> NULL]

InitJobs ==
  /\ users = [u \in Users |-> 0]
  /\ jobs = <<>>
  /\ escrow = <<>>
  /\ transactions = <<>>
  /\ transfers = <<>>
  /\ posts = {}
  /\ reputation = [w \in WorkerIds |-> <<>>]
  /\ now = 0
  /\ pc = [p \in Procs |-> "idle"]
  /\ loc = [p \in Procs |-> IdleLoc]

Init ==
  /\ InitJobs
  /\ wh = NoExchange
  /\ fs = Tree
  /\ ex = NoExecution
  /\ rl = NoLimiter
  /\ runs = [r \in Runs |-> NoExecution]

\* ----------------------------------------------------------------- helpers
JobIds == 1..Len(jobs)

\* escrow rows whose job_id is k (tx.query.escrow.findFirst takes the first)
EscrowRows(k) == {i \in 1..Len(escrow) : escrow[i].jobId = k}
HasEscrow(k) == EscrowRows(k) # {}
FirstEscrow(k) == escrow[CHOOSE i \in EscrowRows(k) : \A j \in EscrowRows(k) : i <= j]

\* handlers are interchangeable: a new request goes to the first idle one
Free(p) == pc[p] = "idle" /\ \A q \in Procs : q < p => pc[q] # "idle"

\* a handler finishes: its result stays visible at pc = "done" until it returns
Finish(p, l, threw, error) ==
  /\ pc' = [pc EXCEPT ![p] = "done"]
  /\ loc' = [loc EXCEPT ![p] =
       [IdleLoc EXCEPT !.op = l.op, !.jobId = l.jobId, !.userId = l.userId,
                       !.via = l.via, !.wr = l.wr, !.swept = l.swept,
                       !.threw = threw, !.error = error]]

Goto(p, l, label) ==
  /\ pc' = [pc EXCEPT ![p] = label]
  /\ loc' = [loc EXCEPT ![p] = l]

Return(p) ==
  /\ pc[p] = "done"
  /\ pc' = [pc EXCEPT ![p] = "idle"]
  /\ loc' = [loc EXCEPT ![p] = IdleLoc]
  /\ UNCHANGED <<db, now, others>>

Tick ==
  /\ now < MaxTime
  /\ now' = now + 1
  /\ UNCHANGED <<db, pc, loc, others>>

\* a decimal(10,2) column keeps a value rounded half away from zero:
\* x/d (x, d >= 0), as a whole number of cents
RoundDiv(x, d) == (2 * x + d) \div (2 * d)

\* the same for x of either sign
RoundSigned(x, d) == IF x >= 0 THEN RoundDiv(x, d) ELSE 0 - RoundDiv(0 - x, d)

\* an amount in tenths of a cent, as a decimal(10,2) column stores it
ToCents(amount) == RoundDiv(amount, 10)

\* the job ids a request may name: those of the jobs there are, and, while
\* there are fewer than MaxJobs, ids no job has
JobArgs == 1..(IF Len(jobs) < MaxJobs THEN MaxJobs ELSE Len(jobs))

\* ------------------------------------------------- WalletService.creditWallet
DepositCount == Cardinality({i \in 1..Len(transactions) : transactions[i].type = "deposit"})

CreditWalletCall(p, cap) ==
  /\ Free(p)
  /\ DepositCount < cap
  /\ \E u \in Requesters, amount \in DepositAmounts :
       /\ users' = [users EXCEPT ![u] = @ + amount]
       /\ transactions' = Append(transactions,
            [userId |-> u, type |-> "deposit", amount |-> amount,
             balanceAfter |-> users[u] + amount, reference |-> 0])
  /\ UNCHANGED <<jobs, escrow, transfers, posts, reputation, now, pc, loc, others>>

creditWallet(p) == CreditWalletCall(p, MaxDeposits)

\* ---------------------------------------------- WalletService.lockFundsForJob
\* the fee split of an amount in tenths of a cent, as the escrow row stores
\* it: amount * PLATFORM_FEE_PERCENT / 100 and amount - platformFee are
\* computed at full precision and each is rounded by its column (for every
\* budget of the model the double-precision results of the code round to the
\* same cents as the exact ones)
PlatformFeeOf(amount) == RoundDiv(amount * PLATFORM_FEE_PERCENT, 1000)
WorkerPayoutOf(amount) == RoundDiv(amount * 100 - amount * PLATFORM_FEE_PERCENT, 1000)

\* mutant: the balance is not compared with the amount
LockFailureNoBalance(input) ==
  IF input.userId \notin Users THEN "User not found" ELSE "ok"

\* why the lock refuses a request, if it does
LockFailure(input) ==
  IF input.userId \notin Users THEN "User not found"
  ELSE IF users[input.userId] * 10 < input.budget THEN "Insufficient funds"
  ELSE "ok"

\* tx.query.users.findFirst and the balance check
LockRead(p) ==
  /\ pc[p] = "lock_read"
  /\ LET l == loc[p]
     IN IF LockFailure(l.input) # "ok"
          THEN Finish(p, [l EXCEPT !.wr = LockFailure(l.input)], TRUE, LockFailure(l.input))
          ELSE Goto(p, l, "lock_commit")
  /\ UNCHANGED <<db, now, others>>

\* UPDATE users, INSERT escrow, INSERT transactions, COMMIT
LockCommit(p) ==
  /\ pc[p] = "lock_commit"
  /\ LET l == loc[p]
         amount == l.input.budget
         tempJobId == 0 - (Len(escrow) + 1)
         balanceAfter == RoundSigned(users[l.input.userId] * 10 - amount, 10)
     IN /\ users' = [users EXCEPT ![l.input.userId] = balanceAfter]
        /\ escrow' = Append(escrow,
             [jobId |-> tempJobId, amount |-> ToCents(amount),
              platformFee |-> PlatformFeeOf(amount),
              workerPayout |-> WorkerPayoutOf(amount),
              status |-> "locked", stripeTransferId |-> 0, releasedAt |-> NONE])
        /\ transactions' = Append(transactions,
             [userId |-> l.input.userId, type |-> "deduction", amount |-> ToCents(amount),
              balanceAfter |-> balanceAfter, reference |-> tempJobId])
        /\ Goto(p, [l EXCEPT !.jobId = tempJobId, !.wr = "ok"], "cj_insert")
  /\ UNCHANGED <<jobs, transfers, posts, reputation, now, others>>

\* ------------------------------------------------------ how a call comes back
SecurityError == "Security: Cannot send job context"
UnreachableError == "Failed to reach worker. Job cancelled and funds refunded."

\* cancelJob returned its updated job to whoever called it
CancelReturned(p, l) ==
  CASE l.via = "top" -> Finish(p, l, FALSE, NULL)
    [] l.via = "nw_scan" -> Finish(p, l, TRUE, SecurityError)
    [] l.via = "nw_fail" -> Finish(p, l, TRUE, UnreachableError)
    [] l.via = "sweep" ->
         IF Len(l.queue) = 0
           THEN Finish(p, l, FALSE, NULL)
           ELSE Goto(p, [l EXCEPT !.jobId = Head(l.queue), !.queue = Tail(l.queue)], "ca_read")

\* a throw inside cancelJob, approveJob or rejectJob reaches the top of the
\* handler: no caller of cancelJob catches it
Throw(p, l, error) == Finish(p, l, TRUE, error)

\* --------------------------------------- WalletService.refundEscrowToWallet
EscrowAlready(status) ==
  CASE status = "released" -> "Escrow already released"
    [] status = "refunded" -> "Escrow already refunded"
    [] status = "locked" -> "Escrow already locked"

\* mutant: the status of the escrow row is not checked
EscrowCheckNoStatus(jobId) ==
  IF ~HasEscrow(jobId) THEN "Escrow record not found" ELSE "ok"

\* the two checks on the escrow row that both release and refund make first
EscrowCheck(jobId) ==
  IF ~HasEscrow(jobId) THEN "Escrow record not found"
  ELSE IF FirstEscrow(jobId).status # "locked" THEN EscrowAlready(FirstEscrow(jobId).status)
  ELSE "ok"

\* tx.query.escrow.findFirst, the status check, tx.query.jobs.findFirst
RefundRead(p) ==
  /\ pc[p] = "ref_read"
  /\ LET l == loc[p]
         check == IF EscrowCheck(l.jobId) # "ok" THEN EscrowCheck(l.jobId)
                  ELSE IF l.jobId \notin JobIds THEN "Job not found"
                  ELSE "ok"
     IN IF check # "ok"
          THEN Throw(p, [l EXCEPT !.wr = check], "Failed to refund")
          ELSE Goto(p, l, "ref_commit")
  /\ UNCHANGED <<db, now, others>>

\* mutant: only the worker's share comes back
RefundPayoutOnly(escrowRecord) == escrowRecord.workerPayout

\* what a refund credits
RefundAmountOf(escrowRecord) == escrowRecord.amount

\* mutant: the refund takes the amount out of the escrow row
RefundedRowEmptied(row, at) ==
  [row EXCEPT !.status = "refunded", !.releasedAt = at, !.amount = 0]

\* .set({ status: 'refunded', releasedAt: new Date() })
RefundedRow(row, at) == [row EXCEPT !.status = "refunded", !.releasedAt = at]

\* UPDATE users, UPDATE escrow, INSERT transactions, COMMIT
RefundCommit(p) ==
  /\ pc[p] = "ref_commit"
  /\ LET l == loc[p]
         owner == jobs[l.jobId].userId
         escrowRecord == FirstEscrow(l.jobId)
         balanceAfter == users[owner] + RefundAmountOf(escrowRecord)
         l2 == [l EXCEPT !.wr = "ok"]
     IN /\ users' = [users EXCEPT ![owner] = balanceAfter]
        /\ escrow' = [i \in 1..Len(escrow) |->
             IF escrow[i].jobId = l.jobId
               THEN RefundedRow(escrow[i], now)
               ELSE escrow[i]]
        /\ transactions' = Append(transactions,
             [userId |-> owner, type |-> "refund", amount |-> RefundAmountOf(escrowRecord),
              balanceAfter |-> balanceAfter, reference |-> l.jobId])
        /\ IF l.op = "rejectJob" THEN Finish(p, l2, FALSE, NULL) ELSE CancelReturned(p, l2)
  /\ UNCHANGED <<jobs, transfers, posts, reputation, now, others>>

\* -------------------------------------- WalletService.releaseEscrowToWorker
\* tx.query.escrow.findFirst, the status check, tx.query.workers.findFirst
ReleaseRead(p) ==
  /\ pc[p] = "rel_read"
  /\ LET l == loc[p]
         workerId == jobs[l.jobId].workerId
         check == IF EscrowCheck(l.jobId) # "ok" THEN EscrowCheck(l.jobId)
                  ELSE IF workerId \notin WorkerIds \/ Workers[workerId].stripeAccountId = NULL
                    THEN "Worker not found or Stripe account not connected"
                  ELSE "ok"
     IN IF check # "ok"
          THEN Throw(p, [l EXCEPT !.wr = check], "Failed to release payment")
          ELSE Goto(p, l, "rel_transfer")
  /\ UNCHANGED <<db, now, others>>

\* stripe.transfers.create: the transfer is made, or Stripe refuses and the
\* transaction (which has written nothing yet) rolls back
ReleaseTransfer(p) ==
  /\ pc[p] = "rel_transfer"
  /\ LET l == loc[p]
     IN \/ /\ transfers' = Append(transfers,
                [jobId |-> l.jobId, workerId |-> jobs[l.jobId].workerId,
                 destination |-> Workers[jobs[l.jobId].workerId].stripeAccountId,
                 amount |-> FirstEscrow(l.jobId).workerPayout])
           /\ Goto(p, [l EXCEPT !.transferId = Len(transfers) + 1], "rel_commit")
        \/ /\ UNCHANGED transfers
           /\ Throw(p, [l EXCEPT !.wr = "Stripe transfer failed"], "Failed to release payment")
  /\ UNCHANGED <<users, jobs, escrow, transactions, posts, reputation, now, others>>

\* UPDATE escrow, tx.query.jobs.findFirst, INSERT transactions, COMMIT
ReleaseCommit(p) ==
  /\ pc[p] = "rel_commit"
  /\ LET l == loc[p]
     IN /\ escrow' = [i \in 1..Len(escrow) |->
             IF escrow[i].jobId = l.jobId
               THEN [escrow[i] EXCEPT !.status = "released",
                                      !.stripeTransferId = l.transferId,
                                      !.releasedAt = now]
               ELSE escrow[i]]
        /\ transactions' =
             IF l.jobId \in JobIds
               THEN Append(transactions,
                      [userId |-> jobs[l.jobId].userId, type |-> "payout",
                       amount |-> FirstEscrow(l.jobId).workerPayout, balanceAfter |-> 0,
                       reference |-> l.jobId])
               ELSE transactions
        /\ Goto(p, [l EXCEPT !.wr = "ok"], "ap_rep")
  /\ UNCHANGED <<users, jobs, transfers, posts, reputation, now, others>>

\* ------------------------------------------------------------ sanitizeText
\* DOMPurify with a tag whitelist and no attributes: markup outside the
\* whitelist is dropped, its text content kept; the empty string stays empty
sanitizeText(text) ==
  CASE text = "" -> ""
    [] text = "plain" -> "plain"
    [] text = "<img onerror=e>hi" -> "hi"
    [] OTHER -> text

\* ----------------------------------------------------- JobService.createJob
CreateJobInputs ==
  [userId : Requesters, type : {"worker"}, skillId : {NULL},
   workerId : {"w_nopay", "w_noend", NULL}, budget : Budgets, context : {"clean"}]
  \cup
  [userId : Requesters, type : {"worker"}, skillId : {NULL},
   workerId : {"w_ok"}, budget : Budgets, context : Contexts]
  \cup
  [userId : Requesters, type : {"skill"}, skillId : {"s1", NULL},
   workerId : {NULL}, budget : Budgets, context : {"clean"}]

\* createJob calls that have not yet inserted their job row
CreatesInFlight == Cardinality({q \in Procs : pc[q] \in {"lock_read", "lock_commit", "cj_insert"}})

\* the validation of the input, for a request drawn from inputs
CreateJobFrom(p, cap, inputs) ==
  /\ Free(p)
  /\ Len(jobs) + CreatesInFlight < cap
  /\ \E input \in inputs :
       LET l == [IdleLoc EXCEPT !.op = "createJob", !.input = input, !.userId = input.userId]
       IN IF input.type = "worker" /\ input.workerId = NULL
            THEN Throw(p, l, "Worker ID required for worker jobs")
          ELSE IF input.type = "skill" /\ input.skillId = NULL
            THEN Throw(p, l, "Skill ID required for skill jobs")
          ELSE Goto(p, l, "lock_read")
  /\ UNCHANGED <<db, now, others>>

CreateJobCall(p, cap) == CreateJobFrom(p, cap, CreateJobInputs)

createJob(p) == CreateJobCall(p, MaxJobs)

\* a worker id that is not a uuid: a query comparing workers.id with it fails
MalformedId == "w_bad"

\* what stops createJob between the fund lock and the job row: the worker
\* lookup with a malformed id, or the insert of a job whose worker_id or
\* skill_id references no row
InsertFailure(input) ==
  IF input.type = "worker" /\ input.workerId = MalformedId
    THEN "invalid input syntax for type uuid"
  ELSE IF input.workerId # NULL /\ input.workerId \notin WorkerIds
    THEN "violates foreign key constraint jobs_worker_id"
  ELSE IF input.skillId # NULL /\ input.skillId \notin Skills
    THEN "violates foreign key constraint jobs_skill_id"
  ELSE "ok"

\* db.query.workers.findFirst, the timeout, INSERT INTO jobs ... RETURNING
CreateInsert(p) ==
  /\ pc[p] = "cj_insert"
  /\ LET l == loc[p]
         input == l.input
         timeoutAt ==
           IF input.type = "worker" /\ input.workerId # NULL /\ input.workerId \in WorkerIds
             THEN now + Workers[input.workerId].p90CompletionTime * 2
             ELSE NONE
         job == [id |-> Len(jobs) + 1, userId |-> input.userId, type |-> input.type,
                 skillId |-> input.skillId, workerId |-> input.workerId,
                 context |-> input.context, budget |-> ToCents(input.budget),
                 status |-> IF input.type = "skill" THEN "in_progress" ELSE "posted",
                 deliverableText |-> NULL, deliverableUrl |-> NULL,
                 deliverableFiles |-> NULL, rating |-> NONE, feedback |-> NULL,
                 timeoutAt |-> timeoutAt, acceptedAt |-> NONE, deliveredAt |-> NONE,
                 completedAt |-> NONE]
     IN IF InsertFailure(input) # "ok"
          THEN /\ UNCHANGED jobs
               /\ Throw(p, [l EXCEPT !.wr = InsertFailure(input)], InsertFailure(input))
          ELSE /\ jobs' = Append(jobs, job)
               /\ Goto(p, [l EXCEPT !.newId = job.id], "cj_repoint")
  /\ UNCHANGED <<users, escrow, transactions, transfers, posts, reputation, now, others>>

\* UPDATE escrow SET job_id = <job.id> WHERE job_id = <tempJobId>
CreateRepoint(p) ==
  /\ pc[p] = "cj_repoint"
  /\ LET l == loc[p]
     IN /\ escrow' = [i \in 1..Len(escrow) |->
             IF escrow[i].jobId = l.jobId
               THEN [escrow[i] EXCEPT !.jobId = l.newId]
               ELSE escrow[i]]
        /\ IF l.input.type = "worker" /\ l.input.workerId # NULL
             THEN Goto(p, [l EXCEPT !.jobId = l.newId], "nw_start")
             ELSE Finish(p, [l EXCEPT !.jobId = l.newId], FALSE, NULL)
  /\ UNCHANGED <<users, jobs, transactions, transfers, posts, reputation, now, others>>

\* --------------------------------------------------- JobService.notifyWorker
\* a context object with no files key, and a secret under another key
LooseContext == "nofiles"

\* 'files' in job.context
HasFiles(context) == context # LooseContext

\* mutant: the scan finds every context safe
ScanSafeAlways(context) == TRUE

\* secretsScanner.scanContext on the job's context
ScanSafe(context) == context # "secret"

\* db.query.workers.findFirst, the endpoint check, the secrets scan
NotifyStart(p) ==
  /\ pc[p] = "nw_start"
  /\ LET l == loc[p]
         job == jobs[l.jobId]
     IN IF job.workerId \notin WorkerIds \/ Workers[job.workerId].apiEndpoint = ""
          THEN Throw(p, l, "Worker endpoint not configured")
        ELSE IF HasFiles(job.context) /\ ~ScanSafe(job.context)
          THEN Goto(p, [l EXCEPT !.via = "nw_scan"], "ca_read")
        ELSE Goto(p, l, "nw_post")
  /\ UNCHANGED <<db, now, others>>

\* fetch(worker.apiEndpoint): a 2xx answer, another answer, or no answer
NotifyPost(p) ==
  /\ pc[p] = "nw_post"
  /\ LET l == loc[p]
     IN \E outcome \in {"ok", "not_ok", "net_error"} :
          /\ posts' = posts \cup {<<l.jobId, outcome>>}
          /\ IF outcome = "ok"
               THEN Goto(p, l, "nw_update")
               ELSE Goto(p, [l EXCEPT !.via = "nw_fail"], "ca_read")
  /\ UNCHANGED <<users, jobs, escrow, transactions, transfers, reputation, now, others>>

\* UPDATE jobs SET status = 'in_progress', accepted_at = now
NotifyUpdate(p) ==
  /\ pc[p] = "nw_update"
  /\ LET l == loc[p]
     IN /\ jobs' = [jobs EXCEPT ![l.jobId] =
                      [@ EXCEPT !.status = "in_progress", !.acceptedAt = now]]
        /\ Finish(p, l, FALSE, NULL)
  /\ UNCHANGED <<users, escrow, transactions, transfers, posts, reputation, now, others>>

\* ---------------------------------------------------- JobService.deliverJob
Payloads ==
  { [deliverableText |-> "plain", deliverableUrl |-> NULL, deliverableFiles |-> NULL],
    [deliverableText |-> "<img onerror=e>hi", deliverableUrl |-> "https://d", deliverableFiles |-> NULL] }

\* mutant: a rejected job is no longer answered with the stored job
AlreadyDeliveredNotRejected(status) == status \in {"delivered", "approved"}

\* the statuses in which a delivery is answered with the stored job
AlreadyDelivered(status) == status \in {"delivered", "approved", "rejected"}

\* getJob and the status checks
deliverJob(p) ==
  /\ Free(p)
  /\ \E jobId \in JobArgs, payload \in Payloads :
       LET l == [IdleLoc EXCEPT !.op = "deliverJob", !.jobId = jobId, !.input = payload]
       IN IF jobId \notin JobIds
            THEN Throw(p, l, "Job not found")
          ELSE IF AlreadyDelivered(jobs[jobId].status)
            THEN Finish(p, [l EXCEPT !.wr = "existing job"], FALSE, NULL)
          ELSE IF jobs[jobId].status \notin {"in_progress", "posted"}
            THEN Throw(p, l, "Cannot deliver job in this status")
          ELSE Goto(p, l, "dj_update")
  /\ UNCHANGED <<db, now, others>>

\* a column given undefined in .set() is left as it is
SetIfDefined(old, new) == IF new = NULL THEN old ELSE new

\* UPDATE jobs SET status = 'delivered', deliverable..., delivered_at = now
DeliverUpdate(p) ==
  /\ pc[p] = "dj_update"
  /\ LET l == loc[p]
         sanitizedText == IF l.input.deliverableText # NULL /\ l.input.deliverableText # ""
                            THEN sanitizeText(l.input.deliverableText) ELSE NULL
         updatedJob == [jobs[l.jobId] EXCEPT
                          !.status = "delivered",
                          !.deliverableText = sanitizedText,
                          !.deliverableUrl = SetIfDefined(@, l.input.deliverableUrl),
                          !.deliverableFiles = SetIfDefined(@, l.input.deliverableFiles),
                          !.deliveredAt = now]
     IN /\ jobs' = [jobs EXCEPT ![l.jobId] = updatedJob]
        /\ Finish(p, l, FALSE, NULL)
  /\ UNCHANGED <<users, escrow, transactions, transfers, posts, reputation, now, others>>

\* ---------------------------------------------------- JobService.approveJob
Feedbacks == {"plain"}

\* mutant: anyone may approve or reject
NotOwnerNever(jobId, userId) == FALSE

\* job.userId !== userId
NotOwner(jobId, userId) == jobs[jobId].userId # userId

\* mutant: only the lower end of the rating range is checked
RatingInvalidLow(rating) == rating < 1

\* rating < 1 || rating > 5
RatingInvalid(rating) == rating < 1 \/ rating > 5

\* getJob and the ownership, status and rating checks
approveJob(p) ==
  /\ Free(p)
  /\ \E jobId \in JobArgs, userId \in Users, rating \in Ratings, feedback \in Feedbacks :
       LET l == [IdleLoc EXCEPT !.op = "approveJob", !.jobId = jobId, !.userId = userId,
                                !.input = [rating |-> rating, feedback |-> feedback]]
       IN IF jobId \notin JobIds
            THEN Throw(p, l, "Job not found")
          ELSE IF NotOwner(jobId, userId)
            THEN Throw(p, l, "Unauthorized: You do not own this job")
          ELSE IF jobs[jobId].status # "delivered"
            THEN Throw(p, l, "Cannot approve job in this status")
          ELSE IF RatingInvalid(rating)
            THEN Throw(p, l, "Rating must be between 1 and 5")
          ELSE Goto(p, l, "ap_update")
  /\ UNCHANGED <<db, now, others>>

\* UPDATE jobs SET status = 'approved', rating, feedback, completed_at = now
ApproveUpdate(p) ==
  /\ pc[p] = "ap_update"
  /\ LET l == loc[p]
     IN /\ jobs' = [jobs EXCEPT ![l.jobId] =
             [@ EXCEPT !.status = "approved",
                       !.rating = l.input.rating,
                       !.feedback = IF l.input.feedback # NULL
                                      THEN sanitizeText(l.input.feedback) ELSE NULL,
                       !.completedAt = now]]
        /\ IF jobs[l.jobId].type = "worker" /\ jobs[l.jobId].workerId # NULL
             THEN Goto(p, l, "rel_read")
             ELSE Finish(p, l, FALSE, NULL)
  /\ UNCHANGED <<users, escrow, transactions, transfers, posts, reputation, now, others>>

\* workerService.updateReputation(workerId, rating)
updateReputation(p) ==
  /\ pc[p] = "ap_rep"
  /\ LET l == loc[p]
     IN /\ reputation' = [reputation EXCEPT ![jobs[l.jobId].workerId] = Append(@, l.input.rating)]
        /\ Finish(p, l, FALSE, NULL)
  /\ UNCHANGED <<users, jobs, escrow, transactions, transfers, posts, now, others>>

\* ----------------------------------------------------- JobService.rejectJob
Reasons == {"plain"}

\* getJob and the ownership and status checks
rejectJob(p) ==
  /\ Free(p)
  /\ \E jobId \in JobArgs, userId \in Users, reason \in Reasons :
       LET l == [IdleLoc EXCEPT !.op = "rejectJob", !.jobId = jobId, !.userId = userId,
                                !.input = reason]
       IN IF jobId \notin JobIds
            THEN Throw(p, l, "Job not found")
          ELSE IF NotOwner(jobId, userId)
            THEN Throw(p, l, "Unauthorized: You do not own this job")
          ELSE IF jobs[jobId].status # "delivered"
            THEN Throw(p, l, "Cannot reject job in this status")
          ELSE Goto(p, l, "rj_update")
  /\ UNCHANGED <<db, now, others>>

\* UPDATE jobs SET status = 'rejected', feedback, completed_at = now
RejectUpdate(p) ==
  /\ pc[p] = "rj_update"
  /\ LET l == loc[p]
     IN /\ jobs' = [jobs EXCEPT ![l.jobId] =
             [@ EXCEPT !.status = "rejected",
                       !.feedback = sanitizeText(l.input),
                       !.completedAt = now]]
        /\ Goto(p, l, "ref_read")
  /\ UNCHANGED <<users, escrow, transactions, transfers, posts, reputation, now, others>>

\* ----------------------------------------------------- JobService.cancelJob
\* the reason each caller of cancelJob passes
CancelReason(via) ==
  CASE via = "top" -> "cancelled by user"
    [] via = "sweep" -> "Job timed out - worker did not deliver within deadline"
    [] via = "nw_scan" -> "Security: Blocked sending context with potential secrets"
    [] via = "nw_fail" -> "Failed to notify worker"

\* the statuses cancelJob refuses
CancelRefused(status) == status = "approved" \/ status = "rejected"

\* getJob and the status check
CancelCheck(p, l) ==
  IF l.jobId \notin JobIds
    THEN Throw(p, l, "Job not found")
  ELSE IF CancelRefused(jobs[l.jobId].status)
    THEN Throw(p, l, "Cannot cancel completed job")
  ELSE Goto(p, l, "ca_update")

\* cancelJob called by a request
cancelJob(p) ==
  /\ Free(p)
  /\ \E jobId \in JobArgs :
       CancelCheck(p, [IdleLoc EXCEPT !.op = "cancelJob", !.jobId = jobId, !.via = "top"])
  /\ UNCHANGED <<db, now, others>>

\* cancelJob called by processTimeouts or notifyWorker
CancelRead(p) ==
  /\ pc[p] = "ca_read"
  /\ CancelCheck(p, loc[p])
  /\ UNCHANGED <<db, now, others>>

\* UPDATE jobs SET status = 'cancelled', feedback = reason, completed_at = now
CancelUpdate(p) ==
  /\ pc[p] = "ca_update"
  /\ LET l == loc[p]
     IN /\ jobs' = [jobs EXCEPT ![l.jobId] =
             [@ EXCEPT !.status = "cancelled",
                       !.feedback = CancelReason(l.via),
                       !.completedAt = now]]
        /\ Goto(p, l, "ref_read")
  /\ UNCHANGED <<users, escrow, transactions, transfers, posts, reputation, now, others>>

\* ----------------------------------------------- JobService.processTimeouts
\* mutant: the status of the job is not part of the selection
TimedOutAnyStatus(j) ==
  /\ jobs[j].timeoutAt # NONE
  /\ jobs[j].timeoutAt < now

\* the WHERE clause of the sweep's query
TimedOut(j) ==
  /\ jobs[j].status \in {"posted", "in_progress"}
  /\ jobs[j].timeoutAt # NONE
  /\ jobs[j].timeoutAt < now

\* the orders in which a query without ORDER BY may return the rows of S
Orders(S) ==
  {q \in [1..Cardinality(S) -> S] : \A i, j \in 1..Cardinality(S) : q[i] = q[j] => i = j}

\* db.query.jobs.findMany, then cancelJob for each row in turn
processTimeouts(p) ==
  /\ Free(p)
  /\ LET timedOutJobs == {j \in JobIds : TimedOut(j)}
         l == [IdleLoc EXCEPT !.op = "processTimeouts", !.via = "sweep"]
     IN IF timedOutJobs = {}
          THEN Finish(p, l, FALSE, NULL)
          ELSE \E q \in Orders(timedOutJobs) :
                 Goto(p, [l EXCEPT !.jobId = Head(q), !.queue = Tail(q),
                                   !.swept = timedOutJobs], "ca_read")
  /\ UNCHANGED <<db, now, others>>

\* ---------------------------------------------------------- the whole system
Step(p) ==
  \/ creditWallet(p)
  \/ createJob(p) \/ LockRead(p) \/ LockCommit(p) \/ CreateInsert(p) \/ CreateRepoint(p)
  \/ NotifyStart(p) \/ NotifyPost(p) \/ NotifyUpdate(p)
  \/ deliverJob(p) \/ DeliverUpdate(p)
  \/ approveJob(p) \/ ApproveUpdate(p)
  \/ ReleaseRead(p) \/ ReleaseTransfer(p) \/ ReleaseCommit(p) \/ updateReputation(p)
  \/ rejectJob(p) \/ RejectUpdate(p)
  \/ cancelJob(p) \/ CancelRead(p) \/ CancelUpdate(p)
  \/ RefundRead(p) \/ RefundCommit(p)
  \/ processTimeouts(p)
  \/ Return(p)

Next == Tick \/ \E p \in Procs : Step(p)

Spec == Init /\ [][Next]_vars

\* ---------------------------------------- concurrent createJob requests only
\* Several createJob requests of one requester, each with everything createJob
\* calls (the fund lock, the dispatch, the cancel and refund of a failed
\* dispatch), and deposits.
createJobLock(p) == CreateJobCall(p, MaxLockJobs)

StepLock(p) ==
  \/ creditWallet(p)
  \/ createJobLock(p) \/ LockRead(p) \/ LockCommit(p) \/ CreateInsert(p) \/ CreateRepoint(p)
  \/ NotifyStart(p) \/ NotifyPost(p) \/ NotifyUpdate(p)
  \/ CancelRead(p) \/ CancelUpdate(p)
  \/ RefundRead(p) \/ RefundCommit(p)
  \/ Return(p)

NextLock == \E p \in Procs : StepLock(p)

SpecLock == Init /\ [][NextLock]_vars

\* ------------------------------------------- requests served one at a time
\* Every request of the system, each served to its end before the next one
\* starts; requests may also name a user, a worker or a skill there is no row
\* for, a worker id that is not a uuid, and a budget that is not a whole
\* number of cents.
Alone(p) == \A q \in Procs \ {p} : pc[q] = "idle"

SubCentBudget == 10005

SeqJobInputs ==
  CreateJobInputs
  \cup
  [userId : {"u_ghost"}, type : {"skill"}, skillId : {"s1"},
   workerId : {NULL}, budget : Budgets, context : {"clean"}]
  \cup
  [userId : Requesters, type : {"worker"}, skillId : {NULL},
   workerId : {MalformedId, "w_ghost"}, budget : Budgets, context : {"clean"}]
  \cup
  [userId : Requesters, type : {"skill"}, skillId : {"s_ghost"},
   workerId : {NULL}, budget : Budgets, context : {"clean"}]
  \cup
  [userId : Requesters, type : {"worker"}, skillId : {NULL},
   workerId : {"w_ok"}, budget : {SubCentBudget}, context : {"clean"}]
  \cup
  [userId : Requesters, type : {"worker"}, skillId : {NULL},
   workerId : {"w_ok"}, budget : Budgets, context : {LooseContext}]

createJobSeq(p) == CreateJobFrom(p, MaxJobs, SeqJobInputs)

\* a request starts only when no other is being served
StepSeq(p) ==
  \/ Alone(p) /\ creditWallet(p)
  \/ Alone(p) /\ createJobSeq(p)
  \/ Alone(p) /\ deliverJob(p)
  \/ Alone(p) /\ approveJob(p)
  \/ Alone(p) /\ rejectJob(p)
  \/ Alone(p) /\ cancelJob(p)
  \/ Alone(p) /\ processTimeouts(p)
  \/ LockRead(p) \/ LockCommit(p) \/ CreateInsert(p) \/ CreateRepoint(p)
  \/ NotifyStart(p) \/ NotifyPost(p) \/ NotifyUpdate(p)
  \/ DeliverUpdate(p)
  \/ ApproveUpdate(p)
  \/ ReleaseRead(p) \/ ReleaseTransfer(p) \/ ReleaseCommit(p) \/ updateReputation(p)
  \/ RejectUpdate(p)
  \/ CancelRead(p) \/ CancelUpdate(p)
  \/ RefundRead(p) \/ RefundCommit(p)
  \/ Return(p)

NextSeq == Tick \/ \E p \in Procs : StepSeq(p)

SpecSeq == Init /\ [][NextSeq]_vars

\* -------------------------------------------------------- the timeout sweep
\* Several jobs of one requester, created, dispatched, delivered and swept,
\* one request at a time.
createJobSweep(p) == CreateJobCall(p, MaxSweepJobs)

creditWalletSweep(p) == CreditWalletCall(p, MaxSweepDeposits)

StepSweep(p) ==
  \/ Alone(p) /\ creditWalletSweep(p)
  \/ Alone(p) /\ createJobSweep(p)
  \/ Alone(p) /\ deliverJob(p)
  \/ Alone(p) /\ processTimeouts(p)
  \/ LockRead(p) \/ LockCommit(p) \/ CreateInsert(p) \/ CreateRepoint(p)
  \/ NotifyStart(p) \/ NotifyPost(p) \/ NotifyUpdate(p)
  \/ DeliverUpdate(p)
  \/ CancelRead(p) \/ CancelUpdate(p)
  \/ RefundRead(p) \/ RefundCommit(p)
  \/ Return(p)

NextSweep == Tick \/ \E p \in Procs : StepSweep(p)

SpecSweep == Init /\ [][NextSweep]_vars

\* ------------------------------------------------------------ the fee split
\* One deposit and one skill job whose budget is any whole number of cents up
\* to MaxFeeCents, or the 12.00 of the documentation.
FeeBudgets == {10 * c : c \in 1..MaxFeeCents} \cup Budgets

FeeJobInputs ==
  [userId : Requesters, type : {"skill"}, skillId : {"s1"},
   workerId : {NULL}, budget : FeeBudgets, context : {"clean"}]

createJobFee(p) == CreateJobFrom(p, MaxJobs, FeeJobInputs)

StepFee(p) ==
  \/ Alone(p) /\ creditWallet(p)
  \/ Alone(p) /\ createJobFee(p)
  \/ LockRead(p) \/ LockCommit(p) \/ CreateInsert(p) \/ CreateRepoint(p)
  \/ Return(p)

NextFee == \E p \in Procs : StepFee(p)

SpecFee == Init /\ [][NextFee]_vars

\* ------------------------------------------- the dispatch to a silent worker
\* Up to MaxLockJobs createJob requests, served one at a time, under the
\* scheduling the code has.  A statement that needs only the database runs once it is reached.
\* The await of fetch(worker.apiEndpoint) ends when the worker answers or the
\* connection fails: the call passes no signal and starts no timer, so nothing
\* in the handler ends the wait of a worker that accepts the connection and
\* stays silent, and NotifyPost has no fairness.
DispatchLocal(p) ==
  \/ LockRead(p) \/ LockCommit(p) \/ CreateInsert(p) \/ CreateRepoint(p)
  \/ NotifyStart(p) \/ NotifyUpdate(p)
  \/ CancelRead(p) \/ CancelUpdate(p)
  \/ RefundRead(p) \/ RefundCommit(p)

StepDispatch(p) ==
  \/ Alone(p) /\ creditWallet(p)
  \/ Alone(p) /\ createJobLock(p)
  \/ DispatchLocal(p)
  \/ NotifyPost(p)
  \/ Return(p)

NextDispatch == \E p \in Procs : StepDispatch(p)

SpecDispatch ==
  Init /\ [][NextDispatch]_vars /\ \A p \in Procs : WF_vars(DispatchLocal(p))

\* ------------------------------------------------------------ webhook crypto
\* src/lib/security/webhook-crypto.ts.  Times are unix milliseconds.
DefaultMaxAgeSeconds == 300
FutureSkewSeconds == 30
MsPerSecond == 1000

DigitChars == <<"0", "1", "2", "3", "4", "5", "6", "7", "8", "9">>

RECURSIVE Digits(_)
\* Date.now().toString(): the decimal digits of a time
Digits(n) ==
  IF n < 10 THEN <<DigitChars[n + 1]>>
  ELSE Digits(n \div 10) \o <<DigitChars[(n % 10) + 1]>>

RECURSIVE ReadDigits(_, _)
\* the digits parseInt reads, up to the first character that is none, added
\* to the value read so far
ReadDigits(text, value) ==
  IF text = <<>> \/ ~(\E i \in 1..10 : DigitChars[i] = Head(text)) THEN value
  ELSE ReadDigits(Tail(text),
                  value * 10 + (CHOOSE i \in 1..10 : DigitChars[i] = Head(text)) - 1)

RECURSIVE parseInt(_)
\* parseInt(timestamp, 10): leading white space is skipped, a sign is read,
\* then digits up to the first character that is none; NaN without a digit
parseInt(text) ==
  IF text # <<>> /\ Head(text) = " " THEN parseInt(Tail(text))
  ELSE LET negative == text # <<>> /\ Head(text) = "-"
           u == IF text # <<>> /\ Head(text) \in {"-", "+"} THEN Tail(text) ELSE text
       IN IF u = <<>> \/ ~(\E i \in 1..10 : DigitChars[i] = Head(u))
            THEN [nan |-> TRUE, value |-> 0]
            ELSE [nan |-> FALSE,
                  value |-> IF negative THEN 0 - ReadDigits(u, 0) ELSE ReadDigits(u, 0)]

\* crypto.createHmac('sha256', secret).update(content).digest('hex').  The
\* keyed hash is taken as ideal: two digests are equal only if made with the
\* same key from the same content.  A signature string is the digest in hex
\* and the form it is written in: "hex" (64 lower-case characters, as digest
\* writes it), "HEX" (the same in upper case), "short" (a character dropped),
\* "nothex" (64 characters, one of them no hex digit), "absent" ('').
HmacHex(secret, content) == [form |-> "hex", key |-> secret, msg |-> content]

signWebhook(payload, secret) == HmacHex(secret, payload)

\* mutant: the timestamp is left out of the signed content
SignPayloadOnly(payload, timestamp, secret) == signWebhook(payload, secret)

signWebhookWithTimestamp(payload, timestamp, secret) ==
  LET signedContent == timestamp \o <<".">> \o payload
  IN HmacHex(secret, signedContent)

\* crypto.timingSafeEqual(Buffer.from(a, 'hex'), Buffer.from(b, 'hex')) of two
\* strings of 64 hex digits: the bytes are compared, whatever the case
timingSafeEqual(a, b) == a.key = b.key /\ a.msg = b.msg

\* mutant: a message as old as the limit is too old
TooOldAtLimit(ageMs, maxAgeSeconds) == ageMs >= maxAgeSeconds * MsPerSecond

\* age > maxAgeSeconds, with age = (now - requestTime) / 1000: for whole
\* numbers of milliseconds and of seconds the quotient compares as the
\* milliseconds do
TooOld(ageMs, maxAgeSeconds) == ageMs > maxAgeSeconds * MsPerSecond

\* mutant: the signature expected is the one of the payload alone
ExpectedOfPayload(payload, timestamp, secret) == signWebhook(payload, secret)

ExpectedSignature(payload, timestamp, secret) ==
  signWebhookWithTimestamp(payload, timestamp, secret)

verifyWebhookWithTimestamp(payload, signature, timestamp, secret, maxAgeSeconds, clock) ==
  IF signature.form \in {"absent", "short"}
    THEN [valid |-> FALSE, error |-> "Invalid signature format"]
  ELSE IF signature.form = "nothex"
    THEN [valid |-> FALSE, error |-> "Signature must be 64 hex characters"]
  ELSE
    LET \* maxAgeSeconds: number = 300
        maxAge == IF maxAgeSeconds = NONE THEN DefaultMaxAgeSeconds ELSE maxAgeSeconds
        requestTime == parseInt(timestamp)
        ageMs == clock - requestTime.value
    IN IF requestTime.nan
         THEN [valid |-> FALSE, error |-> "Invalid timestamp format"]
       ELSE IF TooOld(ageMs, maxAge)
         THEN [valid |-> FALSE, error |-> "Webhook timestamp too old (possible replay attack)"]
       ELSE IF ageMs < 0 - FutureSkewSeconds * MsPerSecond
         THEN [valid |-> FALSE, error |-> "Webhook timestamp is in the future"]
       ELSE IF ~timingSafeEqual(signature, ExpectedSignature(payload, timestamp, secret))
         THEN [valid |-> FALSE, error |-> "Invalid signature"]
       ELSE [valid |-> TRUE, error |-> NULL]

\* One message signed and one message presented for verification.
\* the clock at the verification
HookClock == 400000

\* the timestamps signed and presented: of ages at the edges of the windows,
\* and texts that are no decimal number
HookTimestamps ==
  {Digits(HookClock - a) :
     a \in {0 - 30001, 0 - 30000, 0 - 1, 0, 60000, 60001, 300000, 300001}}
  \cup {<<>>, <<"a", "b", "c">>,
        <<" ">> \o Digits(HookClock), Digits(HookClock) \o <<"x">>,
        Digits(HookClock) \o <<".", "5">>}

InitHook ==
  /\ InitJobs
  /\ fs = Tree
  /\ ex = NoExecution
  /\ rl = NoLimiter
  /\ runs = [r \in Runs |-> NoExecution]
  /\ LET payloads == {<<"a">>, <<"b">>, <<"5", ".", "a">>}
         secrets == {<<"k">>, <<"k", "2">>}
     IN \E payload \in payloads, timestamp \in HookTimestamps, secret \in secrets :
          \E given \in [payload : payloads,
                        form : {"hex", "HEX", "short", "nothex", "absent"},
                        timestamp : HookTimestamps,
                        secret : secrets, maxAgeSeconds : {NONE, 60}] :
            wh = [NoExchange EXCEPT !.stage = "new", !.payload = payload,
                                    !.timestamp = timestamp, !.secret = secret,
                                    !.given = given, !.clock = HookClock]

\* the sender signs its message
SignWebhook ==
  /\ wh.stage = "new"
  /\ wh' = [wh EXCEPT !.stage = "signed",
                      !.signature = signWebhookWithTimestamp(wh.payload, wh.timestamp, wh.secret)]
  /\ UNCHANGED <<db, now, pc, loc, fs, ex, rl, runs>>

\* the receiver verifies what it is given with the signature, written in
\* the form it arrives in
VerifyWebhook ==
  /\ wh.stage = "signed"
  /\ LET g == wh.given
     IN wh' = [wh EXCEPT !.stage = "verified",
                         !.result = verifyWebhookWithTimestamp(
                                      g.payload, [wh.signature EXCEPT !.form = g.form],
                                      g.timestamp, g.secret, g.maxAgeSeconds, wh.clock)]
  /\ UNCHANGED <<db, now, pc, loc, fs, ex, rl, runs>>

NextHook == SignWebhook \/ VerifyWebhook

SpecHook == InitHook /\ [][NextHook]_vars

\* ------------------------------------------------------- the request sent
\* JobService.notifyWorker from 'Prepare webhook payload' to fetch: what the
\* request to the worker carries.  worker.webhookSecret is null or a string
\* (<<>> stands for null and for '', which the test of the secret takes alike;
\* a registration stores null for ''); Date.now() is HookClock + now.

\* mutant: the signature header is set whatever the secret is
DispatchHeadersSigned(payload, timestamp, secret) ==
  [names |-> {"Content-Type", "X-Webhook-Timestamp", "X-Webhook-Signature"},
   signature |-> signWebhookWithTimestamp(payload, timestamp, secret)]

\* headers, with X-Webhook-Signature if (worker.webhookSecret)
DispatchHeaders(payload, timestamp, secret) ==
  IF secret # <<>>
    THEN [names |-> {"Content-Type", "X-Webhook-Timestamp", "X-Webhook-Signature"},
          signature |-> signWebhookWithTimestamp(payload, timestamp, secret)]
    ELSE [names |-> {"Content-Type", "X-Webhook-Timestamp"},
          signature |-> NoExchange.signature]

\* timestamp = Date.now().toString(); payload = JSON.stringify({jobId, task,
\* ..., context, ...}); the headers; fetch(worker.apiEndpoint, {headers, body})
DispatchWebhook ==
  \E jobId \in 1..2, task \in {"a", "b"}, context \in {"n", "f"},
     secret \in {<<>>, <<"k">>, <<"k", "2">>} :
    LET timestamp == Digits(HookClock + now)
        payload == <<"{">> \o Digits(jobId) \o <<",", task, ",", context, "}">>
        headers == DispatchHeaders(payload, timestamp, secret)
    IN wh' = [NoExchange EXCEPT !.stage = "sent", !.payload = payload,
                                !.timestamp = timestamp, !.secret = secret,
                                !.signature = headers.signature,
                                !.headers = headers.names,
                                !.clock = HookClock + now]
  /\ UNCHANGED <<db, now, pc, loc, fs, ex, rl, runs>>

\* the worker of scripts/test-worker-webhook.ts takes the request in: it
\* verifies body, x-webhook-signature (undefined if not sent) and
\* x-webhook-timestamp with the secret it was registered with
ReceiveWebhook ==
  /\ wh.stage = "sent"
  /\ wh' = [wh EXCEPT !.stage = "verified",
                      !.result = verifyWebhookWithTimestamp(
                                   wh.payload, wh.signature, wh.timestamp, wh.secret,
                                   NONE, HookClock + now)]
  /\ UNCHANGED <<db, now, pc, loc, fs, ex, rl, runs>>

NextNotify == Tick \/ DispatchWebhook \/ ReceiveWebhook

SpecNotify == Init /\ [][NextNotify]_vars

\* -------------------------------------------------------------- skill engine
\* src/mcp-server/src/skills/engine.ts.  One SkillEngine on workspacePath and
\* one executeSkill call, of a skill of up to MaxSteps steps.
MaxSteps == 2

\* 'Skill execution failed (changes have been rolled back)'
RolledBackMessage == "rolled back"

RECURSIVE Normalize(_, _)
\* path.resolve reading segments: '..' drops the last one, none above the root
Normalize(segs, acc) ==
  IF segs = <<>> THEN acc
  ELSE IF Head(segs) = <<".", ".">>
    THEN Normalize(Tail(segs), IF acc = <<>> THEN acc ELSE SubSeq(acc, 1, Len(acc) - 1))
  ELSE Normalize(Tail(segs), Append(acc, Head(segs)))

RECURSIVE PathString(_)
\* the characters of a resolved path
PathString(path) ==
  IF path = <<>> THEN <<>> ELSE <<"/">> \o Head(path) \o PathString(Tail(path))

\* resolveValue on a path template: the variable's value, or the text as it
\* is ('${}') when the variable is undefined; item is the loop variable of
\* for_each
resolveValue(template, item) ==
  IF template.kind = "lit" THEN template.text
  ELSE IF template.name = "inputs.target" /\ ex.target.t = "string" THEN ex.target.v
  ELSE IF template.name = "item" /\ item.t = "string" THEN item.v
  ELSE [abs |-> FALSE, segs |-> << <<"$", "{", "}">> >>]

\* path.resolve(this.workspacePath, this.resolveValue(pathTemplate, state))
resolvePath(pathTemplate, item) ==
  LET text == resolveValue(pathTemplate, item)
  IN IF text.abs THEN Normalize(text.segs, <<>>) ELSE Normalize(text.segs, workspacePath)

\* validateFilePath does not throw: resolved.startsWith(workspaceResolved)
PathAllowed(filePath) ==
  LET resolved == PathString(filePath)
      workspaceResolved == PathString(workspacePath)
  IN /\ Len(workspaceResolved) <= Len(resolved)
     /\ SubSeq(resolved, 1, Len(workspaceResolved)) = workspaceResolved

\* mutant: only the required flag is checked
InputErrorRequiredOnly(def, value) ==
  IF def.required /\ value.t = "undefined" THEN "Missing required input" ELSE "ok"

\* validateInputs on the one declared input: the error thrown, or "ok"
InputError(def, value) ==
  IF def.required /\ value.t = "undefined" THEN "Missing required input"
  ELSE IF value.t = "undefined" THEN "ok"
  ELSE IF def.type = "string" /\ value.t # "string" THEN "must be a string"
  ELSE IF def.type = "number" /\ value.t # "number" THEN "must be a number"
  ELSE IF def.type = "boolean" /\ value.t # "boolean" THEN "must be a boolean"
  ELSE IF def.type = "select"
          /\ ~(def.hasOptions /\ value.t = "string" /\ value.v \in def.options)
    THEN "must be one of"
  ELSE IF def.type = "multiselect" /\ value.t # "array" THEN "must be an array"
  ELSE "ok"

\* path.join(this.backupPath, `${timestamp}-${path.basename(file)}`)
BackupFile(file, timestamp) ==
  backupPath \o <<Digits(timestamp) \o <<"-">> \o file[Len(file)]>>

RECURSIVE BackupAll(_, _, _, _)
\* the loop of createBackup: a file that cannot be read is skipped
BackupAll(files, tree, map, timestamp) ==
  IF files = <<>> THEN [tree |-> tree, map |-> map]
  ELSE LET file == Head(files)
           backupFile == BackupFile(file, timestamp)
       IN IF file \in DOMAIN tree
            THEN BackupAll(Tail(files), (backupFile :> tree[file]) @@ tree,
                           (file :> backupFile) @@ map, timestamp)
            ELSE BackupAll(Tail(files), tree, map, timestamp)

RECURSIVE InsertAfter(_, _, _)
\* content.replace(target, `${target}\n${newContent}`), line by line
InsertAfter(content, target, newContent) ==
  IF content = <<>> THEN <<>>
  ELSE IF Head(content) = target THEN <<target>> \o newContent \o Tail(content)
  ELSE <<Head(content)>> \o InsertAfter(Tail(content), target, newContent)

\* The steps work on st: the files (tree), state.changes, the last save_as
\* value (saved), and the error thrown, if any.  The content a step writes
\* is <<"N">>.
OutsideError == "File path outside workspace not allowed"

stepReadFile(step, st, item) ==
  LET filePath == resolvePath(step.path, item)
  IN IF ~PathAllowed(filePath) THEN [st EXCEPT !.error = OutsideError]
     ELSE IF filePath \notin DOMAIN st.tree THEN [st EXCEPT !.error = "ENOENT"]
     ELSE [st EXCEPT !.saved = st.tree[filePath]]

stepWriteFile(step, st, item) ==
  LET filePath == resolvePath(step.path, item)
  IN IF ~PathAllowed(filePath) THEN [st EXCEPT !.error = OutsideError]
     ELSE [st EXCEPT !.tree = (filePath :> <<"N">>) @@ st.tree,
                     !.changes = @ \o <<[type |-> "create", path |-> filePath]>>]

stepUpdateFile(step, st, item) ==
  LET filePath == resolvePath(step.path, item)
  IN IF ~PathAllowed(filePath) THEN [st EXCEPT !.error = OutsideError]
     ELSE IF filePath \notin DOMAIN st.tree THEN [st EXCEPT !.error = "ENOENT"]
     ELSE LET old == st.tree[filePath]
              content ==
                IF step.operation = "insert_after" THEN InsertAfter(old, "C1", <<"N">>)
                ELSE IF step.operation = "replace" THEN <<"N">>
                ELSE IF step.operation = "append" THEN old \o <<"N">>
                ELSE old
          IN [st EXCEPT !.tree = (filePath :> content) @@ st.tree,
                        !.changes = @ \o <<[type |-> "update", path |-> filePath]>>]

stepDeleteFile(step, st, item) ==
  LET filePath == resolvePath(step.path, item)
  IN IF ~PathAllowed(filePath) THEN [st EXCEPT !.error = OutsideError]
     ELSE IF filePath \notin DOMAIN st.tree THEN [st EXCEPT !.error = "ENOENT"]
     ELSE [st EXCEPT !.tree = [q \in (DOMAIN st.tree) \ {filePath} |-> st.tree[q]],
                     !.changes = @ \o <<[type |-> "delete", path |-> filePath]>>]

stepRenameFile(step, st, item) ==
  LET fromPath == resolvePath(step.path, item)
      toPath == resolvePath(step.to, item)
  IN IF ~PathAllowed(fromPath) \/ ~PathAllowed(toPath)
       THEN [st EXCEPT !.error = OutsideError]
     ELSE IF fromPath \notin DOMAIN st.tree THEN [st EXCEPT !.error = "ENOENT"]
     ELSE [st EXCEPT !.tree = (toPath :> st.tree[fromPath])
                              @@ [q \in (DOMAIN st.tree) \ {fromPath} |-> st.tree[q]],
                     !.changes = @ \o <<[type |-> "delete", path |-> fromPath],
                                        [type |-> "create", path |-> toPath]>>]

\* executeStep on a step that is no for_each
executeSimple(step, st, item) ==
  IF step.step = "read_file" THEN stepReadFile(step, st, item)
  ELSE IF step.step = "write_file" THEN stepWriteFile(step, st, item)
  ELSE IF step.step = "update_file" THEN stepUpdateFile(step, st, item)
  ELSE IF step.step = "delete_file" THEN stepDeleteFile(step, st, item)
  ELSE IF step.step = "rename_file" THEN stepRenameFile(step, st, item)
  ELSE IF step.step = "transform" THEN [st EXCEPT !.saved = <<"[Generated]">>]
  ELSE IF step.step = "throw_error"
    THEN [st EXCEPT !.error = "Intentional error for testing"]
  ELSE st

RECURSIVE RunSubSteps(_, _, _)
RECURSIVE RunSubStepsThrough(_, _, _)
\* the sub-steps, with one that throws not ending the loop
RunSubStepsThrough(steps, st, item) ==
  IF steps = <<>> THEN st
  ELSE RunSubStepsThrough(Tail(steps), executeSimple(Head(steps), st, item), item)

\* for (const subStep of step.do): a step that throws ends the loops
RunSubSteps(steps, st, item) ==
  IF steps = <<>> \/ st.error # NULL THEN st
  ELSE RunSubSteps(Tail(steps), executeSimple(Head(steps), st, item), item)

RECURSIVE RunItems(_, _, _)
\* for (const item of items)
RunItems(items, do, st) ==
  IF items = <<>> \/ st.error # NULL THEN st
  ELSE RunItems(Tail(items), do, RunSubSteps(do, st, [t |-> "string", v |-> Head(items)]))

\* items written as an array is taken as it is; written as a template it
\* comes out of String.replace as a string, which is no array
stepForEach(step, st) ==
  IF step.itemsGiven # "array" THEN [st EXCEPT !.error = "for_each items must be an array"]
  ELSE RunItems(step.items, step.do, st)

executeStep(step, st) ==
  IF step.step = "for_each" THEN stepForEach(step, st)
  ELSE executeSimple(step, st, [t |-> "undefined", v |-> Templates.none.text])

\* ---- the skills and the calls
FileStep(kind, path) == [NoStep EXCEPT !.step = kind, !.path = path]

\* the steps a skill is made of
StepChoices ==
  LET T == Templates
      paths == {T.ax, T.new, T.sibling, T.out, T.target}
      writeItem == <<FileStep("write_file", T.item)>>
  IN {FileStep(kind, path) : kind \in {"read_file", "write_file", "delete_file"},
                              path \in paths}
     \cup {[FileStep("update_file", T.ax) EXCEPT !.operation = op] :
             op \in {"insert_after", "replace", "append"}}
     \cup {[FileStep("update_file", path) EXCEPT !.operation = "append"] :
             path \in paths \ {T.ax}}
     \cup {[FileStep("rename_file", T.ax) EXCEPT !.to = to] :
             to \in {T.new, T.sibling, T.out}}
     \cup {[FileStep("rename_file", from) EXCEPT !.to = T.new] :
             from \in {T.sibling, T.out}}
     \cup {[NoStep EXCEPT !.step = "for_each", !.items = items, !.do = writeItem] :
             items \in {<<T.ax.text, T.sibling.text>>, <<T.new.text, T.out.text>>}}
     \cup {[NoStep EXCEPT !.step = "for_each", !.itemsGiven = "template",
                          !.do = writeItem]}
     \cup {[NoStep EXCEPT !.step = "for_each", !.items = <<T.out.text, T.new.text>>,
                          !.do = writeItem \o <<FileStep("write_file", T.new)>>]}
     \cup {[NoStep EXCEPT !.step = s] : s \in {"transform", "throw_error", "unknown"}}

\* skill.inputs declares one input, and inputs gives it or not: every pair
\* that does not pass validateInputs, and one passing pair of each of three
\* kinds
InputCases ==
  LET options == {"a", "b"}
      undefined == [t |-> "undefined", v |-> NULL]
      defs ==
        [type : {"string", "number", "boolean", "select", "multiselect"},
         required : BOOLEAN, hasOptions : {TRUE}, options : {options}]
        \cup [type : {"select"}, required : {TRUE}, hasOptions : {FALSE}, options : {{}}]
      values ==
        {undefined, [t |-> "string", v |-> "a"], [t |-> "string", v |-> "z"],
         [t |-> "number", v |-> "1"], [t |-> "boolean", v |-> "true"],
         [t |-> "array", v |-> "a"]}
      good ==
        { <<[type |-> "string", required |-> TRUE, hasOptions |-> TRUE, options |-> options],
            [t |-> "string", v |-> "a"]>>,
          <<[type |-> "select", required |-> TRUE, hasOptions |-> TRUE, options |-> options],
            [t |-> "string", v |-> "a"]>>,
          <<[type |-> "multiselect", required |-> FALSE, hasOptions |-> TRUE,
             options |-> options],
            undefined>> }
  IN {c \in defs \X values :
        (c[1].required /\ c[2].t = "undefined")
        \/ (c[2].t # "undefined" /\ c[1].type \in {"string", "number", "boolean"}
            /\ c[2].t # c[1].type)
        \/ (c[2].t # "undefined" /\ c[1].type = "select"
            /\ ~(c[1].hasOptions /\ c[2].t = "string" /\ c[2].v \in c[1].options))
        \/ (c[2].t # "undefined" /\ c[1].type = "multiselect" /\ c[2].t # "array")}
     \cup good

\* executeSkill is called: state is initialized and validateInputs runs.
\* inputs.target is not given or is '../out/z'; context.files lists none,
\* one or two files of the workspace, or one that does not exist; the skill
\* has no validation or one file_exists check.
executeSkill ==
  /\ ex.pc = "idle"
  /\ \E c \in InputCases,
        target \in {[t |-> "undefined", v |-> Templates.none.text],
                    [t |-> "string",
                     v |-> [abs |-> FALSE,
                            segs |-> << <<".", ".">>, <<"o", "u", "t">>, <<"z">> >>]]},
        files \in {<<>>, <<F_ax>>, <<F_ax, F_bx>>,
                   <<workspacePath \o << <<"n", "e", "w">> >> >>},
        validation \in {<<>>, <<[check |-> "file_exists", path |-> Templates.ax]>>,
                        <<[check |-> "file_exists", path |-> Templates.new]>>} :
       LET error == InputError(c[1], c[2])
       IN ex' = [NoExecution EXCEPT
                   !.pc = IF error = "ok" THEN "backup" ELSE "rollback",
                   !.inputDef = c[1], !.arg = c[2], !.target = target,
                   !.files = files, !.validation = validation,
                   !.before = fs,
                   !.error = IF error = "ok" THEN NULL ELSE error]
  /\ UNCHANGED <<db, now, pc, loc, wh, fs, rl, runs>>

\* const backupMap = await this.createBackup(context.files || [])
createBackup ==
  /\ ex.pc = "backup"
  /\ LET b == BackupAll(ex.files, fs, <<>>, now)
     IN /\ fs' = b.tree
        /\ ex' = [ex EXCEPT !.pc = "checks", !.hasBackupMap = TRUE, !.backupMap = b.map,
                            !.ran = @ \cup {"backup"}]
  /\ UNCHANGED <<db, now, pc, loc, wh, rl, runs>>

\* the first check of skill.validation that throws, if one does
ValidationError(validation) ==
  IF \E i \in 1..Len(validation) :
       /\ validation[i].check = "file_exists"
       /\ resolvePath(validation[i].path, [t |-> "undefined", v |-> Templates.none.text])
            \notin DOMAIN fs
    THEN "File not found"
    ELSE NULL

\* for (const validation of skill.validation) await this.runValidation(...)
runValidation ==
  /\ ex.pc = "checks"
  /\ LET error == ValidationError(ex.validation)
     IN ex' = [ex EXCEPT !.pc = IF error = NULL THEN "steps" ELSE "rollback",
                         !.error = error,
                         !.ran = IF ex.validation = <<>> THEN @ ELSE @ \cup {"validation"}]
  /\ UNCHANGED <<db, now, pc, loc, wh, fs, rl, runs>>

\* for (const step of skill.execution) await this.executeStep(step, state)
ExecuteStep ==
  /\ ex.pc = "steps"
  /\ ex.stepsRun < MaxSteps
  /\ \E step \in StepChoices :
       LET st == executeStep(step, [tree |-> fs, changes |-> ex.changes,
                                    saved |-> ex.saved, error |-> NULL])
       IN /\ fs' = st.tree
          /\ ex' = [ex EXCEPT !.pc = IF st.error = NULL THEN "steps" ELSE "rollback",
                              !.step = step, !.stepsRun = @ + 1,
                              !.changes = st.changes, !.saved = st.saved,
                              !.error = st.error,
                              !.ran = @ \cup {"step"}]
  /\ UNCHANGED <<db, now, pc, loc, wh, rl, runs>>

\* the steps are through: return { success: true, message: skill.success_message }
ReturnSuccess ==
  /\ ex.pc = "steps"
  /\ ex' = [ex EXCEPT !.pc = "done",
                      !.result = [success |-> TRUE, message |-> "success",
                                  error |-> NULL]]
  /\ UNCHANGED <<db, now, pc, loc, wh, fs, rl, runs>>

\* the files rollback restores; a restore in broken fails at its write
Restorable(map, tree, broken) ==
  {f \in DOMAIN map : map[f] \in DOMAIN tree /\ f \notin broken}

\* the backup files are unlinked if no restore failed
CleanedUp(map, tree) ==
  [q \in (DOMAIN tree) \ {map[f] : f \in DOMAIN map} |-> tree[q]]

\* catch (error): await this.rollback(state), then return { success: false, ... }
Rollback ==
  /\ ex.pc = "rollback"
  /\ IF ~ex.hasBackupMap \/ DOMAIN ex.backupMap = {}
       THEN /\ fs' = fs
            /\ ex' = [ex EXCEPT !.pc = "done",
                                !.result = [success |-> FALSE, message |-> RolledBackMessage,
                                            error |-> ex.error]]
       ELSE \E broken \in SUBSET DOMAIN ex.backupMap :
              LET map == ex.backupMap
                  restored == Restorable(map, fs, broken)
                  failures == (DOMAIN map) \ restored
                  tree == [q \in DOMAIN fs \cup restored |->
                             IF q \in restored THEN fs[map[q]] ELSE fs[q]]
              IN /\ fs' = IF failures = {} THEN CleanedUp(map, tree) ELSE tree
                 /\ ex' = [ex EXCEPT !.pc = "done", !.restored = restored,
                                     !.failures = failures,
                                     !.result = [success |-> FALSE,
                                                 message |-> RolledBackMessage,
                                                 error |-> ex.error]]
  /\ UNCHANGED <<db, now, pc, loc, wh, rl, runs>>

NextSkill ==
  \/ executeSkill \/ createBackup \/ runValidation
  \/ ExecuteStep \/ ReturnSuccess \/ Rollback

SpecSkill == Init /\ [][NextSkill]_vars

\* ------------------------------------------------ two executions that overlap
\* Two executeSkill calls on one SkillEngine, in flight together.  The engine
\* holds no lock and no queue: between two awaits of one call the other may
\* run.  Here each phase of a call (validateInputs and createBackup; one step;
\* rollback and return) runs without the other call in between, which leaves
\* interleavings out and adds none.  The inputs are valid, and the files read,
\* written and restored raise no error of their own.

\* executeSkill is called: validateInputs passes, createBackup copies the
\* one file of context.files
RunStart(r) ==
  /\ runs[r].pc = "idle"
  /\ \E files \in {<<F_ax>>, <<F_bx>>} :
       LET b == BackupAll(files, fs, <<>>, now)
           overlap == \E q \in Runs \ {r} : runs[q].pc \notin {"idle", "done"}
       IN /\ fs' = b.tree
          /\ runs' = [q \in Runs |->
               IF q = r
                 THEN [NoExecution EXCEPT
                         !.pc = "steps", !.files = files, !.hasBackupMap = TRUE,
                         !.backupMap = b.map, !.before = fs,
                         !.ran = IF overlap THEN {"backup", "overlap"} ELSE {"backup"}]
               ELSE IF overlap /\ runs[q].pc \notin {"idle", "done"}
                 THEN [runs[q] EXCEPT !.ran = @ \cup {"overlap"}]
               ELSE runs[q]]
  /\ UNCHANGED <<db, now, pc, loc, wh, ex, rl>>

\* await this.executeStep(step, state), of a skill that writes a file of the
\* workspace and then throws
RunStep(r) ==
  /\ runs[r].pc = "steps"
  /\ runs[r].stepsRun < MaxSteps
  /\ \E step \in {FileStep("write_file", Templates.ax),
                  [FileStep("update_file", Templates.ax) EXCEPT !.operation = "append"],
                  [NoStep EXCEPT !.step = "throw_error"]} :
       LET st == executeStep(step, [tree |-> fs, changes |-> runs[r].changes,
                                    saved |-> runs[r].saved, error |-> NULL])
       IN /\ fs' = st.tree
          /\ runs' = [runs EXCEPT ![r] =
               [@ EXCEPT !.pc = IF st.error = NULL THEN "steps" ELSE "rollback",
                         !.step = step, !.stepsRun = @ + 1,
                         !.changes = st.changes, !.saved = st.saved,
                         !.error = st.error, !.ran = @ \cup {"step"}]]
  /\ UNCHANGED <<db, now, pc, loc, wh, ex, rl>>

\* return { success: true, ... }
RunReturn(r) ==
  /\ runs[r].pc = "steps"
  /\ runs' = [runs EXCEPT ![r] =
       [@ EXCEPT !.pc = "done",
                 !.result = [success |-> TRUE, message |-> "success", error |-> NULL]]]
  /\ UNCHANGED <<db, now, pc, loc, wh, fs, ex, rl>>

\* catch (error): await this.rollback(state), then return { success: false, ... }
RunRollback(r) ==
  /\ runs[r].pc = "rollback"
  /\ LET map == runs[r].backupMap
         restored == Restorable(map, fs, {})
         failures == (DOMAIN map) \ restored
         tree == [q \in DOMAIN fs \cup restored |->
                    IF q \in restored THEN fs[map[q]] ELSE fs[q]]
     IN /\ fs' = IF failures = {} THEN CleanedUp(map, tree) ELSE tree
        /\ runs' = [runs EXCEPT ![r] =
             [@ EXCEPT !.pc = "done", !.restored = restored, !.failures = failures,
                       !.result = [success |-> FALSE, message |-> RolledBackMessage,
                                   error |-> runs[r].error]]]
  /\ UNCHANGED <<db, now, pc, loc, wh, ex, rl>>

NextRuns ==
  \/ Tick
  \/ \E r \in Runs : RunStart(r) \/ RunStep(r) \/ RunReturn(r) \/ RunRollback(r)

SpecRuns == Init /\ [][NextRuns]_vars

\* ------------------------------------------------- the sweep, again and again
\* Up to MaxLockJobs createJob requests and the timeout sweep, served
\* concurrently.  A handler that has been called runs on: its database
\* statements are reached and executed, and here the worker answers the POST.
\* The clock moves on, and processTimeouts is called again and again.
SweepLocal(p) ==
  \/ LockRead(p) \/ LockCommit(p) \/ CreateInsert(p) \/ CreateRepoint(p)
  \/ NotifyStart(p) \/ NotifyPost(p) \/ NotifyUpdate(p)
  \/ CancelRead(p) \/ CancelUpdate(p)
  \/ RefundRead(p) \/ RefundCommit(p)
  \/ Return(p)

StepLive(p) ==
  \/ creditWallet(p)
  \/ createJobLock(p)
  \/ processTimeouts(p)
  \/ SweepLocal(p)

NextLive == Tick \/ \E p \in Procs : StepLive(p)

SpecLive ==
  /\ Init
  /\ [][NextLive]_vars
  /\ WF_vars(Tick)
  /\ \A p \in Procs : WF_vars(SweepLocal(p)) /\ SF_vars(processTimeouts(p))

\* ------------------------------------------------------------- rate limiter
\* src/lib/security/rate-limiter.ts.  One RateLimiter(MaxRequests, WindowMs),
\* called by rateLimit; the clock runs to MaxRateTime and up to MaxChecks
\* calls are made.
MaxRequests == 2
WindowMs == 2
MaxRateTime == 5
MaxChecks == 5

\* !entry || now > entry.resetAt
WindowExpired(entry, clock) == ~entry.present \/ clock > entry.resetAt

\* mutant: the request that reaches the limit is refused
OverLimitAtMax(count) == count >= MaxRequests

\* entry.count > this.maxRequests
OverLimit(count) == count > MaxRequests

\* RateLimiter.check: the store after the call and what it returns
check(store, identifier, clock) ==
  LET entry == store[identifier]
  IN IF WindowExpired(entry, clock)
       THEN [store |-> [store EXCEPT ![identifier] =
                          [present |-> TRUE, count |-> 1, resetAt |-> clock + WindowMs]],
             result |-> [allowed |-> TRUE, remaining |-> MaxRequests - 1,
                         resetAt |-> clock + WindowMs]]
     ELSE LET count == entry.count + 1
              next == [store EXCEPT ![identifier].count = count]
          IN IF OverLimit(count)
               THEN [store |-> next,
                     result |-> [allowed |-> FALSE, remaining |-> 0,
                                 resetAt |-> entry.resetAt]]
               ELSE [store |-> next,
                     result |-> [allowed |-> TRUE, remaining |-> MaxRequests - count,
                                 resetAt |-> entry.resetAt]]

\* rateLimit(req, expensive, identifier): limiter.check(rateLimitKey); the
\* call and what it returned are kept in rl.calls
rateLimit ==
  /\ Len(rl.calls) < MaxChecks
  /\ \E identifier \in Identifiers :
       LET c == check(rl.store, identifier, now)
       IN rl' = [store |-> c.store,
                 calls |-> Append(rl.calls,
                                  [identifier |-> identifier, at |-> now,
                                   allowed |-> c.result.allowed,
                                   remaining |-> c.result.remaining,
                                   resetAt |-> c.result.resetAt])]
  /\ UNCHANGED <<db, now, pc, loc, wh, fs, ex, runs>>

\* the timer of the constructor: entries whose window has expired are deleted
cleanup ==
  /\ \E i \in Identifiers : rl.store[i].present /\ now > rl.store[i].resetAt
  /\ rl' = [rl EXCEPT !.store = [i \in Identifiers |->
                                   IF rl.store[i].present /\ now > rl.store[i].resetAt
                                     THEN NoLimiter.store[i] ELSE rl.store[i]]]
  /\ UNCHANGED <<db, now, pc, loc, wh, fs, ex, runs>>

\* Date.now() moves on
RateTick ==
  /\ now < MaxRateTime
  /\ now' = now + 1
  /\ UNCHANGED <<db, pc, loc, others>>

NextRate == rateLimit \/ cleanup \/ RateTick

SpecRate == Init /\ [][NextRate]_vars

\* =================================================================== claims
Quiescent == \A p \in Procs : pc[p] \in {"idle", "done"}

EscrowStatusOf(j) == FirstEscrow(j).status

RECURSIVE SumHeld(_)
\* the amounts of the escrow rows in status locked or released
SumHeld(rows) ==
  IF rows = <<>> THEN 0
  ELSE (IF Head(rows).status \in {"locked", "released"} THEN Head(rows).amount ELSE 0)
       + SumHeld(Tail(rows))

RECURSIVE SumDeposits(_)
SumDeposits(log) ==
  IF log = <<>> THEN 0
  ELSE (IF Head(log).type = "deposit" THEN Head(log).amount ELSE 0) + SumDeposits(Tail(log))

TransfersFor(j) == {i \in 1..Len(transfers) : transfers[i].jobId = j}
RefundsFor(j) ==
  {i \in 1..Len(transactions) : transactions[i].type = "refund" /\ transactions[i].reference = j}

\* C1: for every job, at most one money movement ever happens for its escrow:
\* the payout transfers made for it and the refunds credited for it number at
\* most one together.
C1_AtMostOneMoneyMovement ==
  \A j \in JobIds : Cardinality(TransfersFor(j)) + Cardinality(RefundsFor(j)) <= 1

\* C2: no wallet balance is ever negative, also with concurrent createJob
\* requests of one requester.
C2_BalanceNeverNegative == \A u \in Users : users[u] >= 0

\* C3: whenever no operation is mid-flight, the requester's wallet balance
\* plus the amounts of its escrows in status locked or released equals the
\* total deposited.
C3_MoneyConserved ==
  Quiescent => users["u1"] + SumHeld(escrow) = SumDeposits(transactions)

\* C4: whenever no operation is in flight, an approved job has its escrow
\* released and a rejected or cancelled job has its escrow refunded.
C4_TerminalJobsSettled ==
  Quiescent =>
    \A j \in JobIds :
      /\ jobs[j].status = "approved" => HasEscrow(j) /\ EscrowStatusOf(j) = "released"
      /\ jobs[j].status \in {"rejected", "cancelled"} =>
           HasEscrow(j) /\ EscrowStatusOf(j) = "refunded"

\* job j's money is still locked: in its escrow row, or in the row createJob has
\* not yet re-pointed from its provisional key to j
LockedFor(j) ==
  \E i \in 1..Len(escrow) :
    /\ escrow[i].status = "locked"
    /\ \/ escrow[i].jobId = j
       \/ \E q \in Procs :
            pc[q] = "cj_repoint" /\ loc[q].newId = j /\ loc[q].jobId = escrow[i].jobId

\* C5: an approveJob that ended with a failed escrow release, or a rejectJob or
\* cancelJob that ended with a failed refund, does not leave the job in the
\* status it wrote (approved, rejected, cancelled) with its escrow still locked.
C5_NoPartialTransition ==
  \A p \in Procs :
    (/\ pc[p] = "done"
     /\ loc[p].threw
     /\ loc[p].error \in {"Failed to release payment", "Failed to refund"}
     /\ loc[p].jobId \in JobIds)
    => ~(/\ jobs[loc[p].jobId].status \in {"approved", "rejected", "cancelled"}
         /\ LockedFor(loc[p].jobId))

\* C6: once a job's status is approved, rejected or cancelled, no step of any
\* handler changes that status.
C6_TerminalAbsorbing ==
  [][\A j \in JobIds :
       jobs[j].status \in {"approved", "rejected", "cancelled"}
         => jobs'[j].status = jobs[j].status]_vars

\* C7: after a delivery has been recorded for a job, a deliverJob call that
\* finds the job delivered, approved or rejected returns successfully at once
\* and changes nothing: not the job (status, deliverable, deliveredAt), nor any
\* other table.
C7_DeliveryIdempotent ==
  [][\A p \in Procs :
       (/\ pc[p] = "idle"
        /\ pc'[p] # "idle"
        /\ loc'[p].op = "deliverJob"
        /\ loc'[p].jobId \in JobIds
        /\ jobs[loc'[p].jobId].deliveredAt # NONE
        /\ jobs[loc'[p].jobId].status \in {"delivered", "approved", "rejected"})
       => (/\ pc'[p] = "done"
           /\ ~loc'[p].threw
           /\ db' = db)]_vars

\* C7 witness: a deliverJob call has answered with the stored job for a job
\* that was delivered earlier and approved since.
C7_Witness ==
  \E p \in Procs :
    /\ pc[p] = "done"
    /\ loc[p].op = "deliverJob"
    /\ ~loc[p].threw
    /\ loc[p].wr = "existing job"
    /\ jobs[loc[p].jobId].status = "approved"
    /\ jobs[loc[p].jobId].deliveredAt # NONE

\* C8: of two concurrent deliverJob calls for one job only one records its
\* deliverable: a call that reaches its write after the job was delivered by
\* the other leaves the job as it is.
C8_SingleDelivery ==
  [][\A p \in Procs :
       (pc[p] = "dj_update" /\ jobs[loc[p].jobId].status = "delivered")
         => jobs'[loc[p].jobId] = jobs[loc[p].jobId]]_vars

\* C9: a release or refund called on an escrow that is already released or
\* refunded fails with an error naming that status and changes nothing:
\* wallet balances, escrow rows, transfers and the transaction log stay as
\* they are.
C9_NoDoubleRelease ==
  [][\A p \in Procs :
       (/\ pc[p] \in {"rel_read", "ref_read"}
        /\ pc'[p] # pc[p]
        /\ HasEscrow(loc[p].jobId)
        /\ EscrowStatusOf(loc[p].jobId) \in {"released", "refunded"})
       => (/\ pc'[p] = "done"
           /\ loc'[p].threw
           /\ loc'[p].wr = (IF EscrowStatusOf(loc[p].jobId) = "released"
                              THEN "Escrow already released"
                              ELSE "Escrow already refunded")
           /\ db' = db)]_vars

\* C9 witness: a second cancelJob of a job has ended with its refund refused
\* because the escrow was refunded by the first, with exactly one refund made.
C9_Witness ==
  \E p \in Procs :
    /\ pc[p] = "done"
    /\ loc[p].op = "cancelJob"
    /\ loc[p].threw
    /\ loc[p].wr = "Escrow already refunded"
    /\ Cardinality(RefundsFor(loc[p].jobId)) = 1

\* C10: a createJob for a worker job that ends without the worker having
\* accepted the webhook has thrown, and has left the job cancelled and its
\* escrow refunded.
C10_DispatchFailureCompensated ==
  \A p \in Procs :
    (/\ pc[p] = "done"
     /\ loc[p].op = "createJob"
     /\ loc[p].jobId \in JobIds
     /\ jobs[loc[p].jobId].type = "worker"
     /\ <<loc[p].jobId, "ok">> \notin posts)
    => (/\ loc[p].threw
        /\ jobs[loc[p].jobId].status = "cancelled"
        /\ HasEscrow(loc[p].jobId)
        /\ EscrowStatusOf(loc[p].jobId) = "refunded")

\* the jobs a sweep has to cancel: posted or in_progress, with a deadline that
\* has passed
Overdue ==
  {j \in JobIds : /\ jobs[j].status \in {"posted", "in_progress"}
                  /\ jobs[j].timeoutAt # NONE
                  /\ jobs[j].timeoutAt < now}

\* every job the sweep of handler p selected is cancelled, its escrow is
\* refunded, and one refund of the full escrow amount has been credited for it
SweptSettled(p) ==
  \A j \in loc[p].swept :
    /\ jobs[j].status = "cancelled"
    /\ HasEscrow(j)
    /\ EscrowStatusOf(j) = "refunded"
    /\ Cardinality(RefundsFor(j)) = 1
    /\ \A i \in RefundsFor(j) :
         /\ transactions[i].amount = FirstEscrow(j).amount
         /\ transactions[i].amount = jobs[j].budget

\* C11: with requests served one at a time, processTimeouts selects exactly
\* the jobs that are posted or in_progress with a deadline that has passed;
\* it ends without an error with each of them cancelled, its escrow refunded
\* and its full amount credited back once, the wallet plus the escrows held
\* being again the total deposited; and no step of a sweep changes, or
\* refunds, a job it did not select, so a second sweep right after (which
\* selects none of the jobs just cancelled) changes nothing of them.
C11_SweepRefunds ==
  [][\A p \in Procs :
       /\ (pc[p] = "idle" /\ loc'[p].op = "processTimeouts")
            => (loc'[p].swept = Overdue /\ db' = db)
       /\ (loc[p].op = "processTimeouts" /\ pc[p] # "done")
            => \A j \in JobIds \ loc[p].swept :
                 jobs'[j] = jobs[j] /\ RefundsFor(j)' = RefundsFor(j)
       /\ (pc'[p] = "done" /\ loc'[p].op = "processTimeouts")
            => /\ ~loc'[p].threw
               /\ SweptSettled(p)'
               /\ (users["u1"] + SumHeld(escrow))' = SumDeposits(transactions)'
    ]_vars

\* C11 witness: a sweep has ended after cancelling and refunding two jobs.
C11_Witness ==
  \E p \in Procs :
    /\ pc[p] = "done"
    /\ loc[p].op = "processTimeouts"
    /\ Cardinality(loc[p].swept) = 2
    /\ SweptSettled(p)

\* C12: when the cancel of a sweep reaches a job that is no longer posted or
\* in_progress (another request has delivered, approved, rejected or
\* cancelled it since the sweep selected it), that step neither fails nor
\* changes the job, the escrow table or a wallet balance.
C12_SweepSkipsMovedJobs ==
  [][\A p \in Procs :
       (/\ loc[p].via = "sweep"
        /\ pc[p] \in {"ca_read", "ca_update"}
        /\ pc'[p] # pc[p]
        /\ jobs[loc[p].jobId].status \notin {"posted", "in_progress"})
       => (/\ jobs'[loc[p].jobId] = jobs[loc[p].jobId]
           /\ escrow' = escrow
           /\ users' = users
           /\ ~loc'[p].threw)]_vars

\* C13: a cancelJob request for a job whose status is delivered, approved,
\* rejected or cancelled ends at once and changes nothing: not the job's
\* status, feedback or completedAt, no escrow row, no balance, no log row.
C13_CancelOnlyFromOpen ==
  [][\A p \in Procs :
       (/\ pc[p] = "idle"
        /\ loc'[p].op = "cancelJob"
        /\ loc'[p].jobId \in JobIds
        /\ jobs[loc'[p].jobId].status \in {"delivered", "approved", "rejected", "cancelled"})
       => (pc'[p] = "done" /\ db' = db)]_vars

\* C14: approveJob or rejectJob called for an existing job, in whatever
\* status, with a userId that is not the job's owner ends at once with the
\* authorization error and changes nothing: no table row, balance, transfer,
\* webhook or reputation.
C14_NonOwnerRefused ==
  [][\A p \in Procs :
       (/\ pc[p] = "idle"
        /\ loc'[p].op \in {"approveJob", "rejectJob"}
        /\ loc'[p].jobId \in JobIds
        /\ jobs[loc'[p].jobId].userId # loc'[p].userId)
       => (/\ pc'[p] = "done"
           /\ loc'[p].threw
           /\ loc'[p].error = "Unauthorized: You do not own this job"
           /\ db' = db)]_vars

\* C14 witness: an approveJob of a delivered job has ended with the
\* authorization error, the job still delivered and its escrow still locked.
C14_Witness ==
  \E p \in Procs :
    /\ pc[p] = "done"
    /\ loc[p].op = "approveJob"
    /\ loc[p].threw
    /\ loc[p].error = "Unauthorized: You do not own this job"
    /\ jobs[loc[p].jobId].status = "delivered"
    /\ HasEscrow(loc[p].jobId)
    /\ EscrowStatusOf(loc[p].jobId) = "locked"

\* C15: approveJob, rejectJob and createJob check their arguments in their
\* first step, which writes nothing: a request that does not pass ends there
\* with a throw, and one that goes on has passed: approve and reject only for
\* a job in status delivered, approve only with a rating in 1..5, createJob
\* only with a workerId for type worker and a skillId for type skill.
C15_ValidationFirst ==
  [][\A p \in Procs :
       (/\ pc[p] = "idle"
        /\ pc'[p] # "idle"
        /\ loc'[p].op \in {"approveJob", "rejectJob", "createJob"})
       => (/\ db' = db
           /\ pc'[p] = "done" => loc'[p].threw
           /\ (pc'[p] # "done" /\ loc'[p].op \in {"approveJob", "rejectJob"})
                => (/\ loc'[p].jobId \in JobIds
                    /\ jobs[loc'[p].jobId].status = "delivered")
           /\ (pc'[p] # "done" /\ loc'[p].op = "approveJob")
                => loc'[p].input.rating \in 1..5
           /\ (pc'[p] # "done" /\ loc'[p].op = "createJob")
                => (/\ loc'[p].input.type = "worker" => loc'[p].input.workerId # NULL
                    /\ loc'[p].input.type = "skill" => loc'[p].input.skillId # NULL))]_vars

\* C15 witness: an approveJob of a delivered job by its owner has ended with
\* the rating error, the job still delivered and unrated.
C15_Witness ==
  \E p \in Procs :
    /\ pc[p] = "done"
    /\ loc[p].op = "approveJob"
    /\ loc[p].threw
    /\ loc[p].error = "Rating must be between 1 and 5"
    /\ jobs[loc[p].jobId].status = "delivered"
    /\ jobs[loc[p].jobId].rating = NONE

\* C16: a createJob whose fund lock is refused (the user is unknown, or the
\* balance is below the budget) ends there with a throw, and neither of its
\* two steps has written anything: no job row, no escrow row, no balance, no
\* log row, no webhook.
C16_FailedLockLeavesNothing ==
  [][\A p \in Procs :
       /\ (pc[p] = "idle" /\ loc'[p].op = "createJob") => db' = db
       /\ (/\ pc[p] = "lock_read"
           /\ pc'[p] # "lock_read"
           /\ \/ loc[p].input.userId \notin DOMAIN users
              \/ users[loc[p].input.userId] * 10 < loc[p].input.budget)
            => (/\ pc'[p] = "done"
                /\ loc'[p].threw
                /\ loc'[p].error \in {"User not found", "Insufficient funds"}
                /\ db' = db)
       /\ (pc[p] = "lock_read" /\ pc'[p] = "done") => (loc'[p].threw /\ db' = db)
    ]_vars

\* C16 witness: a createJob has ended with the lock refused for lack of
\* funds, and there is no job, no escrow row and no webhook.
C16_Witness ==
  \E p \in Procs :
    /\ pc[p] = "done"
    /\ loc[p].op = "createJob"
    /\ loc[p].threw
    /\ loc[p].error = "Insufficient funds"
    /\ jobs = <<>>
    /\ escrow = <<>>
    /\ posts = {}

\* C17: whenever no request is being served, every escrow row references a
\* job, and every job has exactly one escrow row.
C17_EscrowPerJob ==
  Quiescent =>
    /\ \A i \in 1..Len(escrow) : escrow[i].jobId \in JobIds
    /\ \A j \in JobIds : Cardinality(EscrowRows(j)) = 1

\* C18: whenever no request is being served and every escrow there is has
\* been refunded, the requester's wallet holds exactly what was deposited:
\* each refund has brought back the whole of what its createJob took.
C18_RefundRestoresBalance ==
  (/\ Quiescent
   /\ escrow # <<>>
   /\ \A i \in 1..Len(escrow) : escrow[i].status = "refunded")
  => users["u1"] = SumDeposits(transactions)

\* C19: in every escrow row the amount is the sum of the platform fee and the
\* worker payout, as stored.
C19_FeeSplitAddsUp ==
  \A i \in 1..Len(escrow) :
    escrow[i].amount = escrow[i].platformFee + escrow[i].workerPayout

\* C20: a webhook is POSTed only for a job whose context the secrets scan has
\* passed; and a createJob of a worker job whose context holds a blocked file
\* ends with the security error, no webhook POSTed for the job, the job
\* cancelled and its escrow refunded.
C20_SecurityBlock ==
  /\ \A post \in posts : jobs[post[1]].context = "clean"
  /\ \A p \in Procs :
       (/\ pc[p] = "done"
        /\ loc[p].op = "createJob"
        /\ loc[p].jobId \in JobIds
        /\ jobs[loc[p].jobId].context = "secret")
       => (/\ loc[p].threw
           /\ loc[p].error = SecurityError
           /\ \A post \in posts : post[1] # loc[p].jobId
           /\ jobs[loc[p].jobId].status = "cancelled"
           /\ HasEscrow(loc[p].jobId)
           /\ EscrowStatusOf(loc[p].jobId) = "refunded")

\* C21: a createJob request for a worker job always comes to its end (the job
\* in_progress, or cancelled and refunded), also when the worker accepts the
\* connection and never answers.
C21_DispatchTerminates ==
  \A p \in Procs :
    (loc[p].op = "createJob" /\ pc[p] \notin {"idle", "done"}) ~> (pc[p] = "done")

\* the message presented is the message signed, with the signature as made
RoundTrip ==
  /\ wh.stage = "verified"
  /\ wh.given.payload = wh.payload
  /\ wh.given.timestamp = wh.timestamp
  /\ wh.given.secret = wh.secret
  /\ wh.given.form = "hex"

\* the age, in milliseconds, of the timestamp presented, and the limit in force
GivenAgeMs == wh.clock - parseInt(wh.given.timestamp).value
GivenMaxAgeMs ==
  (IF wh.given.maxAgeSeconds = NONE THEN DefaultMaxAgeSeconds ELSE wh.given.maxAgeSeconds)
    * MsPerSecond
GivenInWindow ==
  /\ ~parseInt(wh.given.timestamp).nan
  /\ GivenAgeMs <= GivenMaxAgeMs
  /\ GivenAgeMs >= 0 - FutureSkewSeconds * MsPerSecond

\* C22 (as stated): for every payload, timestamp and secret, the signature of
\* signWebhookWithTimestamp verifies with the same payload, timestamp and secret.
C22_RoundTrip == RoundTrip => wh.result.valid

\* C22 (amended): the signature of signWebhookWithTimestamp verifies with the
\* same payload, timestamp and secret whenever the timestamp reads as a number
\* no older than maxAgeSeconds and no more than 30 seconds ahead of the clock.
C22_RoundTripFresh == (RoundTrip /\ GivenInWindow) => wh.result.valid

C22_Witness == RoundTrip /\ GivenInWindow /\ wh.result.valid /\ GivenAgeMs = 0

\* exactly one of payload, timestamp and secret is not what was signed
OneChanged ==
  \/ /\ wh.given.payload # wh.payload
     /\ wh.given.timestamp = wh.timestamp /\ wh.given.secret = wh.secret
  \/ /\ wh.given.timestamp # wh.timestamp
     /\ wh.given.payload = wh.payload /\ wh.given.secret = wh.secret
  \/ /\ wh.given.secret # wh.secret
     /\ wh.given.payload = wh.payload /\ wh.given.timestamp = wh.timestamp

C24_FreshnessWindow ==
  (RoundTrip /\ ~parseInt(wh.given.timestamp).nan) =>
     (wh.result.valid <=>
        /\ GivenAgeMs <= GivenMaxAgeMs
        /\ GivenAgeMs >= 0 - FutureSkewSeconds * MsPerSecond)

\* a message exactly maxAgeSeconds old is accepted
C24_Witness ==
  /\ RoundTrip /\ ~parseInt(wh.given.timestamp).nan
  /\ wh.given.maxAgeSeconds = NONE
  /\ GivenAgeMs = DefaultMaxAgeSeconds * MsPerSecond
  /\ wh.result.valid

\* executeSkill has returned, and returned a failure
SkillDone == ex.pc = "done"
SkillFailed == ex.pc = "done" /\ ~ex.result.success

\* a path below the directory dir
Below(path, dir) == Len(path) > Len(dir) /\ SubSeq(path, 1, Len(dir)) = dir

\* the sandbox: the files below the workspace root, the backup area left out
Sandbox(tree) ==
  [q \in {r \in DOMAIN tree : Below(r, workspacePath) /\ ~Below(r, backupPath)} |-> tree[q]]

\* the files that are not below the workspace root
OutsideFiles(tree) == [q \in {r \in DOMAIN tree : ~Below(r, workspacePath)} |-> tree[q]]

\* the steps that ran wrote f (write_file, update_file, or a rename onto it)
Overwrote(f) ==
  \E i \in 1..Len(ex.changes) :
    ex.changes[i].path = f /\ ex.changes[i].type \in {"create", "update"}

Listed(f) == \E i \in 1..Len(ex.files) : ex.files[i] = f

\* C25: a file listed in context.files that the steps overwrote before a step
\* threw has, once executeSkill has returned, exactly the content it had before
\* the call, and the result is a failure whose message says rolled back.
C25_RollbackRestores ==
  \A f \in DOMAIN ex.before :
    (SkillFailed /\ ex.failures = {} /\ Listed(f) /\ Overwrote(f))
      => (f \in DOMAIN fs /\ fs[f] = ex.before[f]
          /\ ex.result.message = RolledBackMessage)

\* C26: after an executeSkill call that returns a failure, the files of the
\* sandbox, the backup area left out, are the files of before the call.
C26_AllOrNothing == SkillFailed => Sandbox(fs) = Sandbox(ex.before)

\* C27: no step creates, changes, removes or reads a file that is not below
\* the workspace root, whatever the step kind and however its path is written.
C27_SandboxEscapeRejected ==
  /\ OutsideFiles(fs) = OutsideFiles(ex.before)
  /\ \A q \in DOMAIN OutsideFiles(ex.before) : ex.saved # ex.before[q]

\* C28: the result of a failed executeSkill says rolled back exactly if there
\* were backups and every one of them was restored.
C28_ResultTellsRollback ==
  SkillFailed =>
    (ex.result.message = RolledBackMessage
       <=> (ex.hasBackupMap /\ DOMAIN ex.backupMap # {} /\ ex.failures = {}))

\* C29: once executeSkill has returned a success, or a failure with every
\* restore done, no backup file of the execution is left.
C29_BackupsTransient ==
  (SkillDone /\ (ex.result.success \/ ex.failures = {}))
    => \A f \in DOMAIN ex.backupMap : ex.backupMap[f] \notin DOMAIN fs

\* the declared input is required and missing, or given with the wrong type
BadInput ==
  \/ ex.inputDef.required /\ ex.arg.t = "undefined"
  \/ /\ ex.arg.t # "undefined"
     /\ \/ ex.inputDef.type \in {"string", "number", "boolean"} /\ ex.arg.t # ex.inputDef.type
        \/ /\ ex.inputDef.type = "select"
           /\ ~(ex.arg.t = "string" /\ ex.arg.v \in ex.inputDef.options)
        \/ ex.inputDef.type = "multiselect" /\ ex.arg.t # "array"

\* C30: with a required input missing or an input of the wrong type, the call
\* goes to its failure with no file created, changed or removed and without a
\* backup, a validation check or a step having run.
C30_ValidationFirst ==
  (ex.pc # "idle" /\ BadInput)
    => /\ ex.pc \in {"rollback", "done"}
       /\ fs = ex.before
       /\ ex.ran = {}
       /\ ex.pc = "done" => ~ex.result.success

\* a select input that is none of the options, with a file listed to back up
C30_Witness ==
  /\ SkillFailed /\ BadInput
  /\ ex.inputDef.type = "select" /\ ex.arg.t = "string"
  /\ ex.files = <<F_ax>>
  /\ fs = Tree

\* ---- C31
\* the calls of check made for one identifier, in order
CallsOf(i) == SelectSeq(rl.calls, LAMBDA c : c.identifier = i)

RECURSIVE WindowStart(_, _)
\* the time the window of the k-th call started: the first call starts one,
\* and so does the first call made after the window before has expired
WindowStart(h, k) ==
  IF k = 1 THEN h[1].at
  ELSE LET s == WindowStart(h, k - 1)
       IN IF h[k].at > s + WindowMs THEN h[k].at ELSE s

\* the calls made earlier in the window of the k-th call
EarlierInWindow(h, k) == {j \in 1..(k - 1) : WindowStart(h, j) = WindowStart(h, k)}

\* C31: for each identifier, a call of check is allowed exactly when fewer
\* than maxRequests calls were made before it in its window, so at most
\* maxRequests calls of one window are allowed; a call that is refused
\* returns remaining 0; the first call of a window (the first call at all, or
\* the first after the window before has expired) is allowed and starts a
\* window of windowMs with count 1.
C31_RateLimit ==
  \A i \in Identifiers :
    LET h == CallsOf(i)
    IN \A k \in 1..Len(h) :
         LET before == Cardinality(EarlierInWindow(h, k))
         IN /\ h[k].allowed <=> before < MaxRequests
            /\ ~h[k].allowed => h[k].remaining = 0
            /\ before = 0 => /\ h[k].allowed
                             /\ h[k].remaining = MaxRequests - 1
                             /\ h[k].resetAt = h[k].at + WindowMs
            /\ Cardinality({j \in EarlierInWindow(h, k) \cup {k} : h[j].allowed})
                 <= MaxRequests

\* an identifier was refused in one window and allowed again in the next
C31_Witness ==
  \E i \in Identifiers :
    LET h == CallsOf(i)
    IN \E k, m \in 1..Len(h) :
         /\ k < m
         /\ ~h[k].allowed
         /\ h[m].allowed
         /\ WindowStart(h, m) = h[m].at
         /\ WindowStart(h, k) < h[m].at

\* ---- C32
\* the place of a status on the way posted -> in_progress -> delivered
StatusRank(status) ==
  IF status = "posted" THEN 1
  ELSE IF status = "in_progress" THEN 2
  ELSE IF status = "delivered" THEN 3
  ELSE 4

\* C32: no step moves a job's status backwards along posted -> in_progress
\* -> delivered; a job delivered while notifyWorker has sent the POST and not
\* yet recorded the dispatch stays delivered.
C32_StatusForward ==
  [][\A j \in JobIds :
       jobs[j].status \in {"posted", "in_progress", "delivered"}
         => StatusRank(jobs'[j].status) >= StatusRank(jobs[j].status)]_vars

\* ---- C33
\* C33: with the sweep called again and again and the clock moving on, a job
\* that is posted or in_progress past its timeoutAt is eventually cancelled
\* with its escrow refunded.
C33_SweepLiveness ==
  \A j \in 1..MaxLockJobs :
    (j \in Overdue)
      ~> (/\ j \in JobIds
          /\ jobs[j].status = "cancelled"
          /\ HasEscrow(j)
          /\ EscrowStatusOf(j) = "refunded")

\* ---- C34
\* C34: a payout transfer made for a job whose release is no longer in
\* progress is the one the job's escrow records, in status released; and an
\* escrow that is released records a transfer made for its job.  So no
\* transfer is left behind by a release that failed, and no escrow is
\* refunded after the worker was paid.
C34_ReleaseAtomic ==
  \A j \in JobIds :
    /\ \A t \in TransfersFor(j) :
         (\A p \in Procs : ~(pc[p] = "rel_commit" /\ loc[p].transferId = t))
           => /\ HasEscrow(j)
              /\ EscrowStatusOf(j) = "released"
              /\ FirstEscrow(j).stripeTransferId = t
    /\ (HasEscrow(j) /\ EscrowStatusOf(j) = "released")
         => FirstEscrow(j).stripeTransferId \in TransfersFor(j)

\* ---- C35
\* the handler that leaves statement label in this step, if one does
Leaves(label) == {p \in Procs : pc[p] = label /\ pc'[p] # label}

\* C35: every step leaves the records of the transaction log as they are and
\* appends at most one.  The commit of a lock appends one deduction of the
\* amount escrowed and debited, the commit of a refund one refund of the
\* escrow's amount, credited to the owner, the commit of a release one payout
\* of the amount transferred; a lock, refund or release that fails, and every
\* other step but a deposit, appends nothing.
C35_LogAppendOnly ==
  [][LET n == Len(transactions)
         added == SubSeq(transactions', n + 1, Len(transactions'))
     IN /\ Len(transactions') >= n
        /\ SubSeq(transactions', 1, n) = transactions
        /\ Len(added) <= 1
        /\ \A p \in Leaves("lock_commit") :
             /\ Len(added) = 1
             /\ added[1].type = "deduction"
             /\ added[1].userId = loc[p].input.userId
             /\ Len(escrow') = Len(escrow) + 1
             /\ added[1].amount = escrow'[Len(escrow')].amount
             /\ added[1].reference = escrow'[Len(escrow')].jobId
             /\ users'[added[1].userId] = users[added[1].userId] - added[1].amount
             /\ added[1].balanceAfter = users'[added[1].userId]
        /\ \A p \in Leaves("ref_commit") :
             /\ Len(added) = 1
             /\ added[1].type = "refund"
             /\ added[1].reference = loc[p].jobId
             /\ added[1].userId = jobs[loc[p].jobId].userId
             /\ added[1].amount = FirstEscrow(loc[p].jobId).amount
             /\ users'[added[1].userId] = users[added[1].userId] + added[1].amount
             /\ added[1].balanceAfter = users'[added[1].userId]
        /\ \A p \in Leaves("rel_commit") :
             /\ Len(added) = 1
             /\ added[1].type = "payout"
             /\ added[1].reference = loc[p].jobId
             /\ added[1].amount = transfers[loc[p].transferId].amount
        /\ (Leaves("lock_commit") \cup Leaves("ref_commit") \cup Leaves("rel_commit") = {})
             => (added = <<>> \/ added[1].type = "deposit")
        /\ \A p \in Leaves("lock_read") \cup Leaves("ref_read") \cup Leaves("rel_read")
                    \cup Leaves("rel_transfer") :
             added = <<>>]_vars

\* C35 witness: a lock and a refund have each appended their record, and a
\* second refund of the same escrow has failed and appended nothing
C35_Witness ==
  /\ \E p \in Procs :
       /\ pc[p] = "done"
       /\ loc[p].threw
       /\ loc[p].wr = "Escrow already refunded"
  /\ Len(transactions) = 3
  /\ transactions[2].type = "deduction"
  /\ transactions[3].type = "refund"

\* ---- C36
\* C36: no step changes the budget of a job that exists or the amount,
\* platformFee or workerPayout of an escrow row that exists, and no row is
\* removed; the commit of a release or of a refund changes nothing of an
\* escrow row but its status, releasedAt and stripeTransferId.
C36_FrozenAmounts ==
  [][/\ Len(jobs') >= Len(jobs)
     /\ \A j \in JobIds : jobs'[j].budget = jobs[j].budget
     /\ Len(escrow') >= Len(escrow)
     /\ \A i \in 1..Len(escrow) :
          /\ escrow'[i].amount = escrow[i].amount
          /\ escrow'[i].platformFee = escrow[i].platformFee
          /\ escrow'[i].workerPayout = escrow[i].workerPayout
          /\ (\E p \in Procs : pc[p] \in {"rel_commit", "ref_commit"} /\ pc'[p] # pc[p])
               => escrow'[i] = [escrow[i] EXCEPT !.status = escrow'[i].status,
                                                 !.releasedAt = escrow'[i].releasedAt,
                                                 !.stripeTransferId = escrow'[i].stripeTransferId]
    ]_vars

\* C36 witness: one job was approved and paid out, or cancelled or rejected
\* and refunded, and its budget and its escrow's amounts are those of the lock
C36_Witness ==
  \E j \in JobIds :
    /\ jobs[j].status \in {"approved", "rejected", "cancelled"}
    /\ HasEscrow(j)
    /\ EscrowStatusOf(j) \in {"released", "refunded"}
    /\ FirstEscrow(j).releasedAt # NONE
    /\ jobs[j].budget = FirstEscrow(j).amount
    /\ FirstEscrow(j).amount = FirstEscrow(j).platformFee + FirstEscrow(j).workerPayout

\* ---- C37
\* C37: the backup map of an execution gives distinct files distinct backup
\* files, and after a rollback in which no restore failed every file of the
\* map holds the content it had before the call.
C37_BackupsDistinct ==
  /\ \A f, g \in DOMAIN ex.backupMap :
       f # g => ex.backupMap[f] # ex.backupMap[g]
  /\ (SkillFailed /\ ex.failures = {})
       => \A f \in DOMAIN ex.backupMap : f \in DOMAIN fs /\ fs[f] = ex.before[f]

\* ---- C38
\* C38: when two executeSkill calls that overlapped in time have both
\* returned a failure, every file that both declared in context.files has
\* the content it had before either call started.
C38_OverlapRestores ==
  (\A r \in Runs : /\ runs[r].pc = "done"
                   /\ ~runs[r].result.success
                   /\ "overlap" \in runs[r].ran)
    => \A f \in DOMAIN Tree :
         (\A r \in Runs : \E i \in 1..Len(runs[r].files) : runs[r].files[i] = f)
           => (f \in DOMAIN fs /\ fs[f] = Tree[f])

\* the simple steps a step of skill.execution comes to, in the order they
\* are declared: a for_each gives its sub-steps once for every item
StepUnits(step) ==
  IF step.step # "for_each"
    THEN <<[s |-> step, item |-> [t |-> "undefined", v |-> Templates.none.text]]>>
  ELSE IF step.itemsGiven # "array" THEN <<>>
  ELSE [k \in 1..(Len(step.items) * Len(step.do)) |->
          [s |-> step.do[((k - 1) % Len(step.do)) + 1],
           item |-> [t |-> "string", v |-> step.items[((k - 1) \div Len(step.do)) + 1]]]]

RECURSIVE AfterUnits(_, _, _)
\* the first k of the units, one after the other
AfterUnits(units, k, st) ==
  IF k = 0 THEN st
  ELSE executeSimple(units[k].s, AfterUnits(units, k - 1, st), units[k].item)

\* how many of the units run: up to and with the first that throws
UnitsRun(units, st) ==
  LET throwing == {k \in 1..Len(units) : AfterUnits(units, k, st).error # NULL}
  IN IF throwing = {} THEN Len(units)
     ELSE CHOOSE k \in throwing : \A m \in throwing : k <= m

\* C39: executeSkill goes through validate-inputs, backup, pre-validations
\* and steps in that order; a step runs its units in the declared order; when
\* a check or a step throws, nothing of what comes after it runs (the rest of
\* the sub-steps and items of a for_each included), rollback is next, and the
\* failure result is returned after it.
C39_PhasesInOrder ==
  [][ex' # ex =>
       /\ <<ex.pc, ex'.pc>> \in
            {<<"idle", "backup">>, <<"idle", "rollback">>, <<"backup", "checks">>,
             <<"checks", "steps">>, <<"checks", "rollback">>, <<"steps", "steps">>,
             <<"steps", "rollback">>, <<"steps", "done">>, <<"rollback", "done">>}
       /\ ex.pc # "rollback" => ((ex'.pc = "rollback") <=> (ex'.error # NULL))
       /\ ex.pc \in {"idle", "backup", "checks"} => ex'.changes = <<>> /\ ex'.stepsRun = 0
       /\ ex.pc = "idle" => fs' = fs
       /\ ex.pc = "checks" => fs' = fs /\ "backup" \in ex.ran
       /\ ex.pc = "steps" => "backup" \in ex.ran
       /\ ex'.pc = "done" => (ex'.result.success <=> ex.pc = "steps")
       /\ (ex.pc = "steps" /\ ex'.pc # "done") =>
            LET units == StepUnits(ex'.step)
                st == [tree |-> fs, changes |-> ex.changes, saved |-> ex.saved,
                       error |-> NULL]
                last == AfterUnits(units, UnitsRun(units, st), st)
            IN /\ fs' = last.tree
               /\ ex'.changes = last.changes
               /\ ex'.saved = last.saved
               /\ last.error # NULL => ex'.error = last.error]_vars

\* a for_each has thrown in the first sub-step of its first item, with a
\* sub-step and an item left that would have written a file; rollback is next
C39_Witness ==
  /\ ex.pc = "rollback"
  /\ ex.step.step = "for_each"
  /\ Len(ex.step.items) = 2 /\ Len(ex.step.do) = 2
  /\ ex.error = OutsideError
  /\ resolvePath(Templates.new, [t |-> "undefined", v |-> Templates.none.text]) \notin DOMAIN fs

====
